---- MODULE Spec2Model ----
(***************************************************************************)
(* gosics: a one-instruction (SBNZ) computer and its in-memory assembler.  *)
(*                                                                         *)
(* The assembler (src/assembler/main.go) is modelled operation by          *)
(* operation on a record holding the fields of the Assembler struct.  The  *)
(* 16-bit Von Neumann machine that the assembler targets (vm.Computer with *)
(* LoadMemory, fetchAddress, fetchOperand, putOperand, Step) is modelled   *)
(* from its description and tests.                                         *)
(*                                                                         *)
(* A byte array ([65536]uint8) is represented by the function from the     *)
(* addresses of its nonzero bytes to those bytes: two arrays are equal     *)
(* exactly when their representations are.                                 *)
(***************************************************************************)
EXTENDS Integers, Sequences, FiniteSets, TLC

\* ------------------------------------------------------------- bounds

\* user operations emitted by the caller before Assemble (free-form programs)
MaxOps == 3
\* Step calls made by the caller after LoadMemory
MaxSteps == 3
\* direct getAddress calls made after Assemble (as the tests' t_resolve does)
MaxResolves == 1

\* ---------------------------------------------------------- constants

\* vm.MemorySize: bytes of memory; addresses are uint16
MemorySize == 65536
\* vm.MaxAddress == assembler.maxAddress == assembler.HLT
maxAddress == 65535
\* width of one SBNZ instruction in bytes
InstrSize == 8

\* --------------------------------------------------- byte arrays, words

EmptyMem == [x \in {} |-> 0]

GetByte(m, a) == IF a \in DOMAIN m THEN m[a] ELSE 0

PutByte(m, a, b) ==
    IF b = 0
    THEN [x \in (DOMAIN m) \ {a} |-> m[x]]
    ELSE [x \in (DOMAIN m) \cup {a} |-> IF x = a THEN b ELSE m[x]]

\* uint16 arithmetic
U16(x) == x % 65536

\* uint8(d >> 8) and uint8(d & 0xFF) of a 16-bit value
HiByte(w) == (w \div 256) % 256
LoByte(w) == w % 256

\* the 16-bit value stored big-endian at a, as an unsigned number
GetWord(m, a) == GetByte(m, a) * 256 + GetByte(m, U16(a + 1))

\* --------------------------------------------------------- labelers

\* A labeler is a literal Address or a symbolic Label.
Lit(v) == [k |-> "addr", n |-> "", v |-> v]
Lbl(n) == [k |-> "label", n |-> n, v |-> 0]

ONE == "__ONE"
ZERO == "__ZERO"
JUNK == "__JUNK"

\* map lookup with Go's zero value for a missing key
Lookup(labels, l) == IF l \in DOMAIN labels THEN labels[l] ELSE 0

MapPut(f, key, val) == [x \in (DOMAIN f) \cup {key} |-> IF x = key THEN val ELSE f[x]]

\* F applied to the value of e, e being evaluated once: a local variable
Bind(e, F(_)) == CHOOSE y \in {F(x) : x \in {e}} : TRUE

\* --------------------------------------------------------- assembler

\* getAddress making a new list at every call for a label that is not bound
getAddress_newList(v, s) ==
    Bind(s, LAMBDA a :
        IF v.k = "addr"
        THEN [addr |-> v.v, a |-> a]
        ELSE IF v.n \in DOMAIN a.labels
        THEN [addr |-> a.labels[v.n], a |-> a]
        ELSE [addr |-> maxAddress,
              a |-> [a EXCEPT !.unresolved = MapPut(a.unresolved, v.n, << a.ip >>)]])

\* getAddress looking for a pending list before it looks for a binding
getAddress_pendingFirst(v, s) ==
    Bind(s, LAMBDA a :
        IF v.k = "addr"
        THEN [addr |-> v.v, a |-> a]
        ELSE IF v.n \in DOMAIN a.unresolved
        THEN [addr |-> maxAddress,
              a |-> [a EXCEPT !.unresolved =
                        MapPut(a.unresolved, v.n, Append(a.unresolved[v.n], a.ip))]]
        ELSE IF v.n \in DOMAIN a.labels
        THEN [addr |-> a.labels[v.n], a |-> a]
        ELSE [addr |-> maxAddress,
              a |-> [a EXCEPT !.unresolved = MapPut(a.unresolved, v.n, << a.ip >>)]])

\* getAddress pushing the cursor at the front of the pending list
getAddress_pushFront(v, s) ==
    Bind(s, LAMBDA a :
        IF v.k = "addr"
        THEN [addr |-> v.v, a |-> a]
        ELSE IF v.n \in DOMAIN a.labels
        THEN [addr |-> a.labels[v.n], a |-> a]
        ELSE LET l == IF v.n \in DOMAIN a.unresolved THEN a.unresolved[v.n] ELSE << >>
             IN  [addr |-> maxAddress,
                  a |-> [a EXCEPT !.unresolved =
                            MapPut(a.unresolved, v.n, << a.ip >> \o l)]])

\* Address.getAddress and Label.getAddress: returns the address and the
\* assembler after the call.
getAddress(v, s) ==
    Bind(s, LAMBDA a :
        IF v.k = "addr"
        THEN [addr |-> v.v, a |-> a]
        ELSE IF v.n \in DOMAIN a.labels
        THEN [addr |-> a.labels[v.n], a |-> a]
        ELSE LET l == IF v.n \in DOMAIN a.unresolved THEN a.unresolved[v.n] ELSE << >>
             IN  [addr |-> maxAddress,
                  a |-> [a EXCEPT !.unresolved = MapPut(a.unresolved, v.n, Append(l, a.ip))]])

\* uniqLabel: Sprintf("__label_%04d", label_cnt) after incrementing the counter
Pad4(n) ==
    IF n < 10 THEN "000" \o ToString(n)
    ELSE IF n < 100 THEN "00" \o ToString(n)
    ELSE IF n < 1000 THEN "0" \o ToString(n)
    ELSE ToString(n)

\* uniqLabel without the increment of the counter
uniqLabel_keepsCount(s) ==
    Bind(s, LAMBDA a :
        [label |-> "__label_" \o Pad4(a.label_cnt + 1), a |-> a])

uniqLabel(s) ==
    Bind(s, LAMBDA a :
        [label |-> "__label_" \o Pad4(a.label_cnt + 1),
         a |-> [a EXCEPT !.label_cnt = a.label_cnt + 1]])

\* Label keeping the first binding of a name
Label_firstWins(s, label) ==
    Bind(s, LAMBDA a :
        [a EXCEPT !.labels = IF label \in DOMAIN a.labels
                             THEN a.labels ELSE MapPut(a.labels, label, a.ip),
                  !.defs = @ \cup {[label |-> label, addr |-> a.ip]}])

\* Label: define a label pointing to the current IP.  defs is a history of
\* the definitions made: the label and the address it was bound to.
Label(s, label) ==
    Bind(s, LAMBDA a :
        [a EXCEPT !.labels = MapPut(a.labels, label, a.ip),
                  !.defs = @ \cup {[label |-> label, addr |-> a.ip]}])

\* DB: one byte at IP, IP++
DB1(s, b) ==
    Bind(s, LAMBDA a :
        [a EXCEPT !.memory = PutByte(a.memory, a.ip, b % 256),
                  !.ip = U16(a.ip + 1)])

RECURSIVE DB(_, _)
DB(s, bytes) ==
    IF bytes = << >> THEN s ELSE DB(DB1(s, Head(bytes)), Tail(bytes))

\* DD storing the low byte first
DD1_lowFirst(s, d) ==
    Bind(s, LAMBDA a :
        [a EXCEPT !.memory = PutByte(PutByte(a.memory, a.ip, LoByte(d)),
                                     U16(a.ip + 1), HiByte(d)),
                  !.ip = U16(a.ip + 2)])

\* DD: one 16-bit value at IP, big-endian, IP += 2
DD1(s, d) ==
    Bind(s, LAMBDA a :
        [a EXCEPT !.memory = PutByte(PutByte(a.memory, a.ip, HiByte(d)),
                                     U16(a.ip + 1), LoByte(d)),
                  !.ip = U16(a.ip + 2)])

RECURSIVE DD(_, _)
DD(s, words) ==
    IF words = << >> THEN s ELSE DD(DD1(s, Head(words)), Tail(words))

\* one iteration of SBNZ's loop: resolve the operand, store it, advance.
\* refs is a history of the operands emitted through a label: the label and
\* the offset of the operand.
EmitOperand(s, v) ==
    Bind(getAddress(v, s), LAMBDA r :
        [r.a EXCEPT !.memory = PutByte(PutByte(r.a.memory, r.a.ip, HiByte(r.addr)),
                                       U16(r.a.ip + 1), LoByte(r.addr)),
                    !.ip = U16(r.a.ip + 2),
                    !.refs = IF v.k = "label"
                             THEN @ \cup {[label |-> v.n, site |-> r.a.ip]}
                             ELSE @])

SBNZ(s, a, b, c, d) ==
    EmitOperand(EmitOperand(EmitOperand(EmitOperand(s, a), b), c), d)

\* ------------------------------------------------------ macro instructions

\* MOV storing into the scratch cell
MOV_intoJunk(s, src, dst) ==
    Bind(uniqLabel(s), LAMBDA u :
        Label(SBNZ(u.a, src, Lbl(ZERO), Lbl(JUNK), Lbl(u.label)), u.label))

\* MOV subtracting the one-cell
MOV_subtractsOne(s, src, dst) ==
    Bind(uniqLabel(s), LAMBDA u :
        Label(SBNZ(u.a, src, Lbl(ONE), dst, Lbl(u.label)), u.label))

MOV(s, src, dst) ==
    Bind(uniqLabel(s), LAMBDA u :
        Label(SBNZ(u.a, src, Lbl(ZERO), dst, Lbl(u.label)), u.label))

\* JMP subtracting the zero-cell from itself
JMP_zeroMinusZero(s, a) == SBNZ(s, Lbl(ZERO), Lbl(ZERO), Lbl(JUNK), a)

JMP(s, a) == SBNZ(s, Lbl(ONE), Lbl(ZERO), Lbl(JUNK), a)

\* BEQ branching to dst when the cells differ
BEQ_inverted(s, a, b, dst) == SBNZ(s, a, b, Lbl(JUNK), dst)

BEQ(s, a, b, dst) ==
    Bind(uniqLabel(s), LAMBDA u :
        Label(JMP(SBNZ(u.a, a, b, Lbl(JUNK), Lbl(u.label)), dst), u.label))

\* HLT branching to the address before the halt address
HLT_offByOne(s) == SBNZ(s, Lbl(ONE), Lbl(ZERO), Lbl(JUNK), Lit(maxAddress - 1))

\* HLT branching to itself
HLT_spins(s) == SBNZ(s, Lbl(ONE), Lbl(ZERO), Lbl(JUNK), Lit(s.ip))

HLT(s) == SBNZ(s, Lbl(ONE), Lbl(ZERO), Lbl(JUNK), Lit(maxAddress))

\* NOP storing its difference into the __ONE cell
NOP_intoOne(s) ==
    Bind(uniqLabel(s), LAMBDA r :
        Label(SBNZ(r.a, Lbl(JUNK), Lbl(JUNK), Lbl(ONE), Lbl(r.label)), r.label))

NOP(s) ==
    Bind(uniqLabel(s), LAMBDA u :
        Label(SBNZ(u.a, Lbl(JUNK), Lbl(JUNK), Lbl(JUNK), Lbl(u.label)), u.label))

\* NEG with the operands of its subtraction exchanged
NEG_exchanged(s, src, dst) ==
    Bind(uniqLabel(s), LAMBDA u :
        Label(SBNZ(u.a, src, Lbl(ZERO), dst, Lbl(u.label)), u.label))

NEG(s, src, dst) ==
    Bind(uniqLabel(s), LAMBDA u :
        Label(SBNZ(u.a, Lbl(ZERO), src, dst, Lbl(u.label)), u.label))

\* ADD copying b into the scratch cell where it should negate it
ADD_unnegated(s, a, b, dst) ==
    Bind(uniqLabel(s), LAMBDA u :
        Label(SBNZ(MOV(u.a, b, Lbl(JUNK)), a, Lbl(JUNK), dst, Lbl(u.label)), u.label))

ADD(s, a, b, dst) ==
    Bind(uniqLabel(s), LAMBDA u :
        Label(SBNZ(NEG(u.a, b, Lbl(JUNK)), a, Lbl(JUNK), dst, Lbl(u.label)), u.label))

\* SUB without a label after it: a difference that is not zero branches to 0
SUB_withoutLabel(s, a, b, dst) == SBNZ(s, a, b, dst, Lit(0))

SUB(s, a, b, dst) ==
    Bind(uniqLabel(s), LAMBDA u :
        Label(SBNZ(u.a, a, b, dst, Lbl(u.label)), u.label))

\* INC adding the zero-cell
INC_addsZero(s, a) == ADD(s, a, Lbl(ZERO), a)

INC(s, a) == ADD(s, a, Lbl(ONE), a)

\* DEC subtracting the __ZERO cell
DEC_subtractsZero(s, a) ==
    Bind(uniqLabel(s), LAMBDA u :
        Label(SBNZ(u.a, a, Lbl(ZERO), a, Lbl(u.label)), u.label))

DEC(s, a) ==
    Bind(uniqLabel(s), LAMBDA u :
        Label(SBNZ(u.a, a, Lbl(ONE), a, Lbl(u.label)), u.label))

\* NOT negating before it adds one
NOT_negFirst(s, a, b) == ADD(NEG(s, a, b), b, Lbl(ONE), b)

NOT(s, a, b) == NEG(ADD(s, a, Lbl(ONE), b), b, b)

\* SBNZ(a, b, c, self.ip+off): the operand is the IP before the call
SBNZnext(s, a, b, c, off) ==
    Bind(s, LAMBDA t : SBNZ(t, a, b, c, Lit(U16(t.ip + off))))

\* Label(label); DD(self.ip - back)
LabelDDback(s, label, back) ==
    Bind(Label(s, label), LAMBDA t : DD(t, << U16(t.ip - back) >>))

\* PUSH whose return address is the label after the expansion
PUSH_returnsToExit(s, a) ==
    Bind(uniqLabel(s), LAMBDA u1 :
    Bind(uniqLabel(u1.a), LAMBDA u2 :
        Label(
          LabelDDback(
            SBNZ(
              SBNZ(
                SBNZnext(
                  SBNZnext(u2.a, a, Lbl(ZERO), Lbl("__push_operand"), 8),
                  Lbl(u1.label), Lbl(ZERO), Lbl("__push_ret"), 8),
                Lbl(ONE), Lbl(ZERO), Lbl(JUNK), Lbl("__push")),
              Lbl(ONE), Lbl(ZERO), Lbl(JUNK), Lbl(u2.label)),
            u1.label, -2),
          u2.label)))

PUSH(s, a) ==
    Bind(uniqLabel(s), LAMBDA u1 :
    Bind(uniqLabel(u1.a), LAMBDA u2 :
        Label(
          LabelDDback(
            SBNZ(
              SBNZ(
                SBNZnext(
                  SBNZnext(u2.a, a, Lbl(ZERO), Lbl("__push_operand"), 8),
                  Lbl(u1.label), Lbl(ZERO), Lbl("__push_ret"), 8),
                Lbl(ONE), Lbl(ZERO), Lbl(JUNK), Lbl("__push")),
              Lbl(ONE), Lbl(ZERO), Lbl(JUNK), Lbl(u2.label)),
            u1.label, 8),
          u2.label)))

\* POP returning to its last instruction, as PUSH does
POP_returnsLate(s, a) ==
    Bind(uniqLabel(s), LAMBDA u1 :
    Bind(uniqLabel(u1.a), LAMBDA u2 :
        Label(
          LabelDDback(
            SBNZ(
              SBNZnext(
                SBNZ(
                  SBNZnext(u2.a, Lbl(u1.label), Lbl(ZERO), Lbl("__pop_ret"), 8),
                  Lbl(ONE), Lbl(ZERO), Lbl(JUNK), Lbl("__pop")),
                Lbl("__push_operand"), Lbl(ZERO), a, 8),
              Lbl(ONE), Lbl(ZERO), Lbl(JUNK), Lbl(u2.label)),
            u1.label, 8),
          u2.label)))

\* POP storing its return address in the cell of PUSH
POP_sharesPushRet(s, a) ==
    Bind(uniqLabel(s), LAMBDA u1 :
    Bind(uniqLabel(u1.a), LAMBDA u2 :
        Label(
          LabelDDback(
            SBNZ(
              SBNZnext(
                SBNZ(
                  SBNZnext(u2.a, Lbl(u1.label), Lbl(ZERO), Lbl("__push_ret"), 8),
                  Lbl(ONE), Lbl(ZERO), Lbl(JUNK), Lbl("__pop")),
                Lbl("__push_operand"), Lbl(ZERO), a, 8),
              Lbl(ONE), Lbl(ZERO), Lbl(JUNK), Lbl(u2.label)),
            u1.label, 16),
          u2.label)))

POP(s, a) ==
    Bind(uniqLabel(s), LAMBDA u1 :
    Bind(uniqLabel(u1.a), LAMBDA u2 :
        Label(
          LabelDDback(
            SBNZ(
              SBNZnext(
                SBNZ(
                  SBNZnext(u2.a, Lbl(u1.label), Lbl(ZERO), Lbl("__pop_ret"), 8),
                  Lbl(ONE), Lbl(ZERO), Lbl(JUNK), Lbl("__pop")),
                Lbl("__push_operand"), Lbl(ZERO), a, 8),
              Lbl(ONE), Lbl(ZERO), Lbl(JUNK), Lbl(u2.label)),
            u1.label, 16),
          u2.label)))

\* ------------------------------------------------------------- New

\* the zero Assembler with its two maps made
Zero == [ip |-> 0, labels |-> [x \in {} |-> 0], unresolved |-> [x \in {} |-> << >>],
         memory |-> EmptyMem, label_cnt |-> 0, refs |-> {}, defs |-> {}]

\* the jump without its result field
DDjump_short(s) ==
    Bind(s, LAMBDA t : DD(t, << Lookup(t.labels, ONE), Lookup(t.labels, ZERO) >>))

\* DD(labels[ONE], labels[ZERO], labels[JUNK]): the first three fields of a
\* jump whose target the caller stores in the cell that follows
DDjump(s) ==
    Bind(s, LAMBDA t :
        DD(t, << Lookup(t.labels, ONE), Lookup(t.labels, ZERO), Lookup(t.labels, JUNK) >>))

\* the first instruction and the cells __ONE .. __SP
NewData ==
    DD(Label(
      DD(Label(
        DD(Label(
          DD(Label(
            DD(Label(
              SBNZ(Zero, Lbl(ONE), Lbl(ZERO), Lbl(JUNK), Lbl("__start")),
              ONE), << 1 >>),
            ZERO), << 0 >>),
          JUNK), << 0 >>),
        "__push_operand"), << 64186 >>),
      "__SP"), << U16(maxAddress - 1) >>)

\* __push decreasing the stack pointer once
NewPush_decOnce(s) ==
    DD(Label(
      DDjump(
        SBNZnext(
          SBNZnext(
            Bind(Label(s, "__push"), LAMBDA t :
                SBNZ(t, Lbl("__SP"), Lbl(ZERO), Lit(U16(t.ip + 12)), Lit(U16(t.ip + 8)))),
            Lbl("__push_operand"), Lbl(ZERO), Lit(maxAddress - 1), 8),
          Lbl("__SP"), Lbl(ONE), Lbl("__SP"), 8)),
      "__push_ret"), << 65535 >>)

\* __push .. __push_ret
NewPush(s) ==
    DD(Label(
      DDjump(
        SBNZnext(
          SBNZnext(
            SBNZnext(
              Bind(Label(s, "__push"), LAMBDA t :
                  SBNZ(t, Lbl("__SP"), Lbl(ZERO), Lit(U16(t.ip + 12)), Lit(U16(t.ip + 8)))),
              Lbl("__push_operand"), Lbl(ZERO), Lit(maxAddress - 1), 8),
            Lbl("__SP"), Lbl(ONE), Lbl("__SP"), 8),
          Lbl("__SP"), Lbl(ONE), Lbl("__SP"), 8)),
      "__push_ret"), << 65535 >>)

\* __pop increasing the stack pointer once
NewPop_incOnce(s) ==
    DD(Label(
      DDjump(
        SBNZnext(
          Bind(
            SBNZnext(
              SBNZnext(Label(s, "__pop"), Lbl(ZERO), Lbl(ONE), Lbl(JUNK), 8),
              Lbl("__SP"), Lbl(JUNK), Lbl("__SP"), 8),
            LAMBDA t :
              SBNZ(t, Lbl("__SP"), Lbl(ZERO), Lit(U16(t.ip + 8)), Lit(U16(t.ip + 8)))),
          Lit(maxAddress - 1), Lbl(ZERO), Lbl("__push_operand"), 8)),
      "__pop_ret"), << 65535 >>)

\* __pop reading the stack before it increases the stack pointer
NewPop_readsFirst(s) ==
    DD(Label(
      DDjump(
        SBNZnext(
          SBNZnext(
            SBNZnext(
              Bind(
                SBNZnext(Label(s, "__pop"), Lbl(ZERO), Lbl(ONE), Lbl(JUNK), 8),
                LAMBDA t :
                  SBNZ(t, Lbl("__SP"), Lbl(ZERO), Lit(U16(t.ip + 8)), Lit(U16(t.ip + 8)))),
              Lit(maxAddress - 1), Lbl(ZERO), Lbl("__push_operand"), 8),
            Lbl("__SP"), Lbl(JUNK), Lbl("__SP"), 8),
          Lbl("__SP"), Lbl(JUNK), Lbl("__SP"), 8)),
      "__pop_ret"), << 65535 >>)

\* __pop .. __pop_ret
NewPop(s) ==
    DD(Label(
      DDjump(
        SBNZnext(
          Bind(
            SBNZnext(
              SBNZnext(
                SBNZnext(Label(s, "__pop"), Lbl(ZERO), Lbl(ONE), Lbl(JUNK), 8),
                Lbl("__SP"), Lbl(JUNK), Lbl("__SP"), 8),
              Lbl("__SP"), Lbl(JUNK), Lbl("__SP"), 8),
            LAMBDA t :
              SBNZ(t, Lbl("__SP"), Lbl(ZERO), Lit(U16(t.ip + 8)), Lit(U16(t.ip + 8)))),
          Lit(maxAddress - 1), Lbl(ZERO), Lbl("__push_operand"), 8)),
      "__pop_ret"), << 65535 >>)

New == Label(NewPop(NewPush(NewData)), "__start")

\* Assemble: the map unresolved is ranged over in an order Go does not fix
\* (order is one such order); res[i], res[i+1] panic outside res.
RECURSIVE PatchSites(_, _, _)
PatchSites(r0, sites, addr) ==
    Bind(r0, LAMBDA r :
        IF sites = << >> \/ r.status = "panic" THEN r
        ELSE LET i == Head(sites)
             IN  IF i >= r.len \/ i + 1 >= r.len
                 THEN [r EXCEPT !.status = "panic"]
                 ELSE PatchSites(
                        [r EXCEPT !.bytes = PutByte(PutByte(r.bytes, i, HiByte(addr)),
                                                    i + 1, LoByte(addr))],
                        Tail(sites), addr))

\* patching only the labels that are defined
RECURSIVE PatchLabels_skipUndefined(_, _, _)
PatchLabels_skipUndefined(r, order, a) ==
    IF order = << >> THEN r
    ELSE PatchLabels_skipUndefined(
             IF Head(order) \in DOMAIN a.labels
             THEN PatchSites(r, a.unresolved[Head(order)], a.labels[Head(order)])
             ELSE r,
             Tail(order), a)

RECURSIVE PatchLabels(_, _, _)
PatchLabels(r, order, a) ==
    IF order = << >> THEN r
    ELSE PatchLabels(PatchSites(r, a.unresolved[Head(order)], Lookup(a.labels, Head(order))),
                     Tail(order), a)

\* Assemble returning the whole buffer
Assemble_whole(s, order) ==
    Bind(s, LAMBDA a :
        PatchLabels([status |-> "ok", len |-> MemorySize, bytes |-> a.memory], order, a))

Assemble(s, order) ==
    Bind(s, LAMBDA a :
        PatchLabels([status |-> "ok", len |-> a.ip,
                     bytes |-> [x \in {y \in DOMAIN a.memory : y < a.ip} |-> a.memory[x]]],
                    order, a))

\* two of the orders in which the map can be ranged over: by first patch
\* site, ascending and descending
RECURSIVE BySite(_, _)
BySite(S0, u) ==
    Bind(S0, LAMBDA S :
        IF S = {} THEN << >>
        ELSE Bind(CHOOSE x \in S : \A y \in S : u[x][1] <= u[y][1], LAMBDA m :
                 << m >> \o BySite(S \ {m}, u)))

Reverse(s) == [i \in 1..Len(s) |-> s[Len(s) + 1 - i]]

RangeOrders(a) ==
    Bind(BySite(DOMAIN a.unresolved, a.unresolved), LAMBDA asc : {asc, Reverse(asc)})

\* --------------------------------------------------------- the machine

\* Operand is int16
ToOperand(u) == IF u >= 32768 THEN u - 65536 ELSE u

\* an address without its width
Address_unbounded(x) == x

\* Address is uint16: its arithmetic wraps at MemorySize
Address(x) == x % MemorySize

fetchAddress(c, a) == GetByte(c.memory, a) * 256 + GetByte(c.memory, Address(a + 1))

fetchOperand(c, a) == ToOperand(fetchAddress(c, a))

putOperand(c, a, v) ==
    [c EXCEPT !.memory = PutByte(PutByte(c.memory, a, HiByte(U16(v))),
                                 Address(a + 1), LoByte(U16(v)))]

Peek(c, a) == fetchOperand(c, a)

\* LoadMemory making a new memory of the bytes
LoadMemory_clears(c, img) == [c EXCEPT !.memory = img.bytes]

\* LoadMemory: copy the bytes to memory from address 0
LoadMemory(c, img) ==
    [c EXCEPT !.memory =
        [x \in ((DOMAIN c.memory) \ (0..(img.len - 1))) \cup DOMAIN img.bytes |->
            IF x \in DOMAIN img.bytes THEN img.bytes[x] ELSE c.memory[x]]]

Halted(c) == c.ip = maxAddress

\* the instruction at the IP: its four address fields
Fetch(c) ==
    [A |-> fetchAddress(c, c.ip),
     B |-> fetchAddress(c, Address(c.ip + 2)),
     C |-> fetchAddress(c, Address(c.ip + 4)),
     D |-> fetchAddress(c, Address(c.ip + 6))]

\* Step advancing the IP by one, as a machine with one instruction per
\* address would
Step_ipInc(c0) ==
    Bind(c0, LAMBDA c :
        IF Halted(c) THEN c
        ELSE Bind(Fetch(c), LAMBDA i :
             Bind(ToOperand(U16(fetchOperand(c, i.A) - fetchOperand(c, i.B))), LAMBDA r :
                 [ip |-> IF r # 0 THEN i.D ELSE U16(c.ip + 1),
                  memory |-> putOperand(c, i.C, r).memory])))

\* Step without the test of Halted
Step_always(c0) ==
    Bind(c0, LAMBDA c :
        Bind(Fetch(c), LAMBDA i :
        Bind(ToOperand(U16(fetchOperand(c, i.A) - fetchOperand(c, i.B))), LAMBDA r :
            [ip |-> IF r # 0 THEN i.D ELSE U16(c.ip + InstrSize),
             memory |-> putOperand(c, i.C, r).memory])))

\* Step subtracting in place: it copies the cell at A to C, then subtracts
\* the cell at B, read after the copy
Step_inPlace(c0) ==
    Bind(c0, LAMBDA c :
        IF Halted(c) THEN c
        ELSE Bind(Fetch(c), LAMBDA i :
             Bind(putOperand(c, i.C, fetchOperand(c, i.A)), LAMBDA c1 :
             Bind(ToOperand(U16(fetchOperand(c1, i.C) - fetchOperand(c1, i.B))), LAMBDA r :
                 [ip |-> IF r # 0 THEN i.D ELSE U16(c.ip + InstrSize),
                  memory |-> putOperand(c1, i.C, r).memory]))))

\* Step taking the branch target from memory after it has stored the result
Step_branchesLate(c0) ==
    Bind(c0, LAMBDA c :
        IF Halted(c) THEN c
        ELSE Bind(Fetch(c), LAMBDA i :
             Bind(ToOperand(U16(fetchOperand(c, i.A) - fetchOperand(c, i.B))), LAMBDA r :
             Bind(putOperand(c, i.C, r), LAMBDA c1 :
                 [ip |-> IF r # 0 THEN fetchAddress(c1, Address(c.ip + 6))
                                  ELSE Address(c.ip + InstrSize),
                  memory |-> c1.memory]))))

Step(c0) ==
    Bind(c0, LAMBDA c :
        IF Halted(c) THEN c
        ELSE Bind(Fetch(c), LAMBDA i :
             Bind(ToOperand(U16(fetchOperand(c, i.A) - fetchOperand(c, i.B))), LAMBDA r :
                 [ip |-> IF r # 0 THEN i.D ELSE Address(c.ip + InstrSize),
                  memory |-> putOperand(c, i.C, r).memory])))

\* the zero Computer
Computer == [ip |-> 0, memory |-> EmptyMem]

\* ----------------------------------------------------------- the state

VARIABLES
    \* Assembler
    ip, labels, unresolved, memory, label_cnt,
    \* history: the operands emitted through a label, [label, site], and the
    \* definitions of labels, [label, addr]
    refs, defs,
    \* what Assemble returned: [status, len, bytes]
    res,
    \* Computer
    c_ip, c_memory,
    \* the caller: its position, the calls it has made, its last call
    pc, nops, nsteps, nresolves, last,
    \* the macro instructions of the caller's program: [op, src, dst, at, end],
    \* at the cursor before the call and end the cursor after it
    prog

asmVars == << ip, labels, unresolved, memory, label_cnt, refs, defs >>
cVars == << c_ip, c_memory >>
vars == << ip, labels, unresolved, memory, label_cnt, refs, defs, res, c_ip, c_memory,
           pc, nops, nsteps, nresolves, last, prog >>

self == [ip |-> ip, labels |-> labels, unresolved |-> unresolved, memory |-> memory,
         label_cnt |-> label_cnt, refs |-> refs, defs |-> defs]

computer == [ip |-> c_ip, memory |-> c_memory]

SetAsm(a) ==
    /\ ip' = a.ip
    /\ labels' = a.labels
    /\ unresolved' = a.unresolved
    /\ memory' = a.memory
    /\ label_cnt' = a.label_cnt
    /\ refs' = a.refs
    /\ defs' = a.defs

SetComputer(c) ==
    /\ c_ip' = c.ip
    /\ c_memory' = c.memory

Call(op, label, ret) == [op |-> op, label |-> label, ret |-> ret]

NoRes == [status |-> "none", len |-> 0, bytes |-> EmptyMem]

\* the caller's labels and the operands it passes
UserLabels == {"A", "B"}
UserOperands == {Lbl(n) : n \in UserLabels}
Words == {4660}

\* an emission by the caller: a is the assembler after it
Emit(s, op, label) ==
    /\ pc = "asm"
    /\ nops < MaxOps
    /\ \E a \in {s} : a.ip >= ip /\ SetAsm(a)
    /\ nops' = nops + 1
    /\ last' = Call(op, label, 0)
    /\ UNCHANGED << res, c_ip, c_memory, pc, nsteps, nresolves, prog >>

CallLabel == \E n \in UserLabels : Emit(Label(self, n), "Label", n)

CallDB == Emit(DB(self, << 7 >>), "DB", "")

CallDD == \E w \in Words : Emit(DD(self, << w >>), "DD", "")

CallSBNZ ==
    \E a \in UserOperands, d \in {Lbl("A"), Lit(maxAddress)} :
        Emit(SBNZ(self, a, Lbl(ZERO), Lbl("B"), d), "SBNZ", "")

CallMOV == \E src \in UserOperands : Emit(MOV(self, src, Lbl("B")), "MOV", "")

CallJMP == \E t \in UserOperands : Emit(JMP(self, t), "JMP", t.n)

\* Assemble emptying the map of pending lists once it has patched the image
CallAssemble_discards ==
    /\ pc = "asm"
    /\ \E order \in RangeOrders(self) : res' = Assemble(self, order)
    /\ unresolved' = << >>
    /\ pc' = "assembled"
    /\ last' = Call("Assemble", "", 0)
    /\ UNCHANGED << ip, labels, memory, label_cnt, refs, defs, cVars, nops, nsteps,
                    nresolves, prog >>

\* Assemble patching the assembler's own memory and returning a slice of it
CallAssemble_inPlace ==
    /\ pc = "asm"
    /\ \E order \in RangeOrders(self) : \E r \in {Assemble(self, order)} :
        /\ res' = r
        /\ memory' = [x \in (DOMAIN memory \ (0..(ip - 1))) \cup DOMAIN r.bytes |->
                          IF x < ip THEN r.bytes[x] ELSE memory[x]]
    /\ pc' = "assembled"
    /\ last' = Call("Assemble", "", 0)
    /\ UNCHANGED << ip, labels, unresolved, label_cnt, refs, defs, cVars, nops, nsteps,
                    nresolves, prog >>

CallAssemble ==
    /\ pc = "asm"
    /\ \E order \in RangeOrders(self) : res' = Assemble(self, order)
    /\ pc' = "assembled"
    /\ last' = Call("Assemble", "", 0)
    /\ UNCHANGED << asmVars, cVars, nops, nsteps, nresolves, prog >>

\* Label(l).getAddress(a) called directly, after Assemble
CallGetAddress ==
    /\ pc = "assembled"
    /\ nresolves < MaxResolves
    /\ \E l \in UserLabels \cup {ONE} :
        \E r \in {getAddress(Lbl(l), self)} :
            /\ SetAsm(r.a)
            /\ last' = Call("getAddress", l, r.addr)
    /\ nresolves' = nresolves + 1
    /\ UNCHANGED << res, cVars, pc, nops, nsteps, prog >>

\* the image is loaded right after Assemble, before any label is inspected
CallLoadMemory ==
    /\ pc = "assembled"
    /\ nresolves = 0
    /\ res.status = "ok"
    /\ \E c \in {LoadMemory(computer, res)} : SetComputer(c)
    /\ pc' = "run"
    /\ last' = Call("LoadMemory", "", 0)
    /\ UNCHANGED << asmVars, res, nops, nsteps, nresolves, prog >>

CallStep ==
    /\ pc = "run"
    /\ nsteps < MaxSteps
    /\ \E c \in {Step(computer)} : SetComputer(c)
    /\ nsteps' = nsteps + 1
    /\ last' = Call("Step", "", IF Halted(computer) THEN 1 ELSE 0)
    /\ UNCHANGED << asmVars, res, pc, nops, nresolves, prog >>

\* a new assembler and a zero computer; the caller at position p
InitAt(p) ==
    /\ \E a \in {New} :
        /\ ip = a.ip
        /\ labels = a.labels
        /\ unresolved = a.unresolved
        /\ memory = a.memory
        /\ label_cnt = a.label_cnt
        /\ refs = a.refs
        /\ defs = a.defs
    /\ res = NoRes
    /\ c_ip = Computer.ip
    /\ c_memory = Computer.memory
    /\ pc = p
    /\ nops = 0
    /\ nsteps = 0
    /\ nresolves = 0
    /\ last = Call("New", "", 0)
    /\ prog = << >>

Init == InitAt("asm")

Next ==
    \/ CallLabel
    \/ CallDB
    \/ CallDD
    \/ CallSBNZ
    \/ CallMOV
    \/ CallJMP
    \/ CallAssemble
    \/ CallGetAddress
    \/ CallLoadMemory
    \/ CallStep

Spec == Init /\ [][Next]_vars


\* ------------------------------------------- the machine on raw images

\* images like those of the machine's tests: one instruction at 0 whose
\* operand and result fields point at the cells that follow it
Cells == {8, 10, 12}
Targets == {0, 250, 65535}
Vals == {0, 2, 5, 32768, 65535}

RawImage(w) == [status |-> "ok", len |-> 2 * Len(w), bytes |-> DD(Zero, w).memory]

CallLoadImage ==
    /\ pc = "raw"
    /\ \E A \in Cells, B \in Cells, C \in Cells, D \in Targets,
          x \in Vals, y \in Vals, z \in Vals :
        \E c \in {LoadMemory(computer, RawImage(<< A, B, C, D, x, y, z >>))} :
            SetComputer(c)
    /\ pc' = "run"
    /\ last' = Call("LoadMemory", "", 0)
    /\ UNCHANGED << asmVars, res, nops, nsteps, nresolves, prog >>

InitVM == InitAt("raw")

NextVM ==
    \/ CallLoadImage
    \/ CallStep

SpecVM == InitVM /\ [][NextVM]_vars

\* -------------------------------------------- the machine loaded again

\* the images of the machine's tests, as words, and the empty image
LoadWords == {<< >>, << 64186 >>, << 0, 0, 0, 0 >>,
              << 8, 10, 12, 250, 5, 2, 0 >>, << 8, 10, 10, 250, 5, 3 >>}

\* LoadMemory on a machine that is new, loaded or stepped; res is the
\* caller's byte slice
CallReload ==
    /\ pc \in {"raw", "run"}
    /\ nops < MaxOps
    /\ \E w \in LoadWords : \E img \in {RawImage(w)} :
        /\ res' = img
        /\ \E c \in {LoadMemory(computer, img)} : SetComputer(c)
    /\ pc' = "run"
    /\ nops' = nops + 1
    /\ last' = Call("LoadMemory", "", 0)
    /\ UNCHANGED << asmVars, nsteps, nresolves, prog >>

NextLoad ==
    \/ CallReload
    \/ CallStep

SpecLoad == InitVM /\ [][NextLoad]_vars

\* ------------------------------------- the machine at the end of memory

\* images of one instruction at 0 that stores at, reads from and jumps to the
\* last addresses; an instruction at one of the last 8 addresses has its
\* fields in the last bytes of memory and the first
EdgeA == {8, 65535}
EdgeB == {10, 65535}
EdgeC == {12, 65534, 65535}
EdgeD == {65528, 65529, 65531, 65534, 65535}
EdgeX == {0, 5, 65535}
EdgeY == {0, 2}

CallLoadEdge ==
    /\ pc = "raw"
    /\ \E A \in EdgeA, B \in EdgeB, C \in EdgeC, D \in EdgeD, x \in EdgeX, y \in EdgeY :
        \E c \in {LoadMemory(computer, RawImage(<< A, B, C, D, x, y >>))} :
            SetComputer(c)
    /\ pc' = "run"
    /\ last' = Call("LoadMemory", "", 0)
    /\ UNCHANGED << asmVars, res, nops, nsteps, nresolves, prog >>

NextEdge ==
    \/ CallLoadEdge
    \/ CallStep

SpecEdge == InitVM /\ [][NextEdge]_vars

\* ------------------------------------ programs of macro instructions

\* programs like those of the assembler's tests: macro instructions from
\* __start, HLT, then the cells X and Y; the image is loaded and stepped.
\* X is a word, or one byte, and then its second byte is Y's first.
MaxMacros == 2
DataVals == {0, 1, 4660, 65535}
SrcOperands == {Lbl("X"), Lbl(ONE)}
DstOperands == {Lbl("X"), Lbl("Y"), Lbl(ZERO)}

EmitMacro(s, op, src, dst) ==
    /\ pc = "code"
    /\ Len(prog) < MaxMacros
    /\ \E a \in {s} :
        /\ SetAsm(a)
        /\ prog' = Append(prog, [op |-> op, src |-> src, dst |-> dst,
                                 at |-> ip, end |-> a.ip])
    /\ last' = Call(op, "", 0)
    /\ UNCHANGED << res, cVars, pc, nops, nsteps, nresolves >>

ProgMOV ==
    \E src \in SrcOperands, dst \in DstOperands :
        EmitMacro(MOV(self, src, dst), "MOV", src, dst)

ProgHLT ==
    /\ pc = "code"
    /\ \E a \in {HLT(self)} : SetAsm(a)
    /\ pc' = "labelX"
    /\ last' = Call("HLT", "", 0)
    /\ UNCHANGED << res, cVars, nops, nsteps, nresolves, prog >>

ProgLabel ==
    /\ pc \in {"labelX", "labelY"}
    /\ \E n \in {IF pc = "labelX" THEN "X" ELSE "Y"} :
        /\ \E a \in {Label(self, n)} : SetAsm(a)
        /\ last' = Call("Label", n, 0)
    /\ pc' = IF pc = "labelX" THEN "cellX" ELSE "cellY"
    /\ UNCHANGED << res, cVars, nops, nsteps, nresolves, prog >>

ProgDD ==
    /\ pc \in {"cellX", "cellY"}
    /\ \E v \in DataVals : \E a \in {DD(self, << v >>)} : SetAsm(a)
    /\ pc' = IF pc = "cellX" THEN "labelY" ELSE "asm"
    /\ last' = Call("DD", "", 0)
    /\ UNCHANGED << res, cVars, nops, nsteps, nresolves, prog >>

ProgDB ==
    /\ pc = "cellX"
    /\ \E a \in {DB(self, << 18 >>)} : SetAsm(a)
    /\ pc' = "labelY"
    /\ last' = Call("DB", "", 0)
    /\ UNCHANGED << res, cVars, nops, nsteps, nresolves, prog >>

InitRun == InitAt("code")

NextRun ==
    \/ ProgMOV
    \/ ProgHLT
    \/ ProgLabel
    \/ ProgDD
    \/ ProgDB
    \/ CallAssemble
    \/ CallLoadMemory
    \/ CallStep

SpecRun == InitRun /\ [][NextRun]_vars

\* the caller's loop: for !c.Halted() { c.Step() }, cut after MaxRun steps
MaxRun == 21

ProgStep ==
    /\ pc = "run"
    /\ nsteps < MaxRun
    /\ ~Halted(computer)
    /\ \E c \in {Step(computer)} : SetComputer(c)
    /\ nsteps' = nsteps + 1
    /\ last' = Call("Step", "", 0)
    /\ UNCHANGED << asmVars, res, pc, nops, nresolves, prog >>

\* a macro instruction of three operands emitted by the caller
EmitMacro3(s, op, a, b, dst) ==
    /\ pc = "code"
    /\ Len(prog) < MaxMacros
    /\ \E t \in {s} :
        /\ SetAsm(t)
        /\ prog' = Append(prog, [op |-> op, src |-> a, b |-> b, dst |-> dst,
                                 at |-> ip, end |-> t.ip])
    /\ last' = Call(op, "", 0)
    /\ UNCHANGED << res, cVars, pc, nops, nsteps, nresolves >>

\* ------------------------------------------- programs that branch

\* programs of JMP, BEQ and MOV with one target label T, bound before or
\* after its uses or never, then HLT and the cells X and Y
Target == "T"

FlowJMP == EmitMacro(JMP(self, Lbl(Target)), "JMP", Lbl(ONE), Lbl(Target))

FlowBEQ ==
    EmitMacro3(BEQ(self, Lbl("X"), Lbl("Y"), Lbl(Target)), "BEQ",
               Lbl("X"), Lbl("Y"), Lbl(Target))

\* MOV(X, Y), which makes the two cells equal, and MOV(ONE, ZERO)
FlowMOV ==
    \E m \in {<< Lbl("X"), Lbl("Y") >>, << Lbl(ONE), Lbl(ZERO) >>} :
        EmitMacro(MOV(self, m[1], m[2]), "MOV", m[1], m[2])

FlowLabel ==
    /\ pc = "code"
    /\ Target \notin DOMAIN labels
    /\ \E a \in {Label(self, Target)} : SetAsm(a)
    /\ last' = Call("Label", Target, 0)
    /\ UNCHANGED << res, cVars, pc, nops, nsteps, nresolves, prog >>

\* the HLT that ends the program, recorded like the macro instructions
FlowHLT ==
    /\ pc = "code"
    /\ \E a \in {HLT(self)} :
        /\ SetAsm(a)
        /\ prog' = Append(prog, [op |-> "HLT", src |-> Lbl(ONE), dst |-> Lbl(JUNK),
                                 at |-> ip, end |-> a.ip])
    /\ pc' = "labelX"
    /\ last' = Call("HLT", "", 0)
    /\ UNCHANGED << res, cVars, nops, nsteps, nresolves >>

NextFlow ==
    \/ FlowJMP
    \/ FlowBEQ
    \/ FlowLabel
    \/ FlowMOV
    \/ FlowHLT
    \/ ProgLabel
    \/ ProgDD
    \/ ProgDB
    \/ CallAssemble
    \/ CallLoadMemory
    \/ ProgStep

SpecFlow == InitRun /\ [][NextFlow]_vars

\* ------------------------------------- programs of arithmetic macros

\* programs of the macro instructions that do not branch, on the cells X and
\* Y and on a word far after the image; X and Y may be one cell
Far == Lit(32768)

\* the values of X and Y
DataPairs == {<< 4660, 9029 >>, << 4660, 60876 >>, << 0, 0 >>, << 65535, 1 >>,
              << 1, 65535 >>, << 0, 4660 >>, << 32768, 32768 >>}

\* MOV(X, ZERO), which stores X's value into the __ZERO cell
ArithMOV == EmitMacro(MOV(self, Lbl("X"), Lbl(ZERO)), "MOV", Lbl("X"), Lbl(ZERO))

ArithNEG == EmitMacro(NEG(self, Lbl("X"), Lbl("Y")), "NEG", Lbl("X"), Lbl("Y"))

ArithADD ==
    \E dst \in {Lbl("X"), Lbl("Y"), Far} :
        EmitMacro3(ADD(self, Lbl("X"), Lbl("Y"), dst), "ADD", Lbl("X"), Lbl("Y"), dst)

ArithSUB ==
    EmitMacro3(SUB(self, Lbl("X"), Lbl("Y"), Lbl("Y")), "SUB", Lbl("X"), Lbl("Y"), Lbl("Y"))

ArithINC == EmitMacro(INC(self, Lbl("X")), "INC", Lbl("X"), Lbl("X"))

ArithDEC == EmitMacro(DEC(self, Lbl("X")), "DEC", Lbl("X"), Lbl("X"))

ArithNOT == EmitMacro(NOT(self, Lbl("X"), Lbl("Y")), "NOT", Lbl("X"), Lbl("Y"))

ArithNOP == EmitMacro(NOP(self), "NOP", Lbl(JUNK), Lbl(JUNK))

\* Label("X"); Label("Y"): the two labels on one cell
ProgLabelSame ==
    /\ pc = "cellX"
    /\ \E a \in {Label(self, "Y")} : SetAsm(a)
    /\ pc' = "cellY"
    /\ last' = Call("Label", "Y", 0)
    /\ UNCHANGED << res, cVars, nops, nsteps, nresolves, prog >>

\* DD of X's value, then of the value of Y that goes with it
ArithDD ==
    /\ pc \in {"cellX", "cellY"}
    /\ \E p \in DataPairs :
        /\ (pc = "cellY" /\ labels["X"] # ip) => p[1] = GetWord(memory, labels["X"])
        /\ \E v \in {IF pc = "cellY" /\ labels["X"] # ip THEN p[2] ELSE p[1]} :
               \E a \in {DD(self, << v >>)} : SetAsm(a)
    /\ pc' = IF pc = "cellX" THEN "labelY" ELSE "asm"
    /\ last' = Call("DD", "", 0)
    /\ UNCHANGED << res, cVars, nops, nsteps, nresolves, prog >>

NextMacro ==
    \/ ArithMOV
    \/ ArithNEG
    \/ ArithADD
    \/ ArithSUB
    \/ ArithINC
    \/ ArithDEC
    \/ ArithNOT
    \/ ArithNOP
    \/ FlowHLT
    \/ ProgLabel
    \/ ProgLabelSame
    \/ ArithDD
    \/ CallAssemble
    \/ CallLoadMemory
    \/ ProgStep

SpecMacro == InitRun /\ [][NextMacro]_vars

\* ------------------------------------------- programs that use the stack

\* programs of up to MaxMacros + 1 of PUSH(X), POP(Y) and MOV, then HLT and
\* the cells X and Y
EmitStack(s, op, src, dst) ==
    /\ pc = "code"
    /\ Len(prog) <= MaxMacros
    /\ \E t \in {s} :
        /\ SetAsm(t)
        /\ prog' = Append(prog, [op |-> op, src |-> src, dst |-> dst,
                                 at |-> ip, end |-> t.ip])
    /\ last' = Call(op, "", 0)
    /\ UNCHANGED << res, cVars, pc, nops, nsteps, nresolves >>

StackPUSH == EmitStack(PUSH(self, Lbl("X")), "PUSH", Lbl("X"), Lbl("__push_operand"))

StackPOP == EmitStack(POP(self, Lbl("Y")), "POP", Lbl("__push_operand"), Lbl("Y"))

\* MOV(ONE, X), which changes the cell that is pushed, and MOV(ONE, ZERO)
StackMOV ==
    \E dst \in {Lbl("X"), Lbl(ZERO)} :
        EmitStack(MOV(self, Lbl(ONE), dst), "MOV", Lbl(ONE), dst)

NextStack ==
    \/ StackPUSH
    \/ StackPOP
    \/ StackMOV
    \/ FlowHLT
    \/ ProgLabel
    \/ ProgDD
    \/ ProgDB
    \/ CallAssemble
    \/ CallLoadMemory
    \/ ProgStep

SpecStack == InitRun /\ [][NextStack]_vars

\* programs of up to MaxMacros + 1 pushes and pops alone: PUSH(X), POP(Y) and
\* POP(ZERO), which stores into the __ZERO cell; then HLT and the cells
StackPOPZero ==
    EmitStack(POP(self, Lbl(ZERO)), "POP", Lbl("__push_operand"), Lbl(ZERO))

NextRet ==
    \/ StackPUSH
    \/ StackPOP
    \/ StackPOPZero
    \/ FlowHLT
    \/ ProgLabel
    \/ ProgDD
    \/ CallAssemble
    \/ CallLoadMemory
    \/ ProgStep

SpecRet == InitRun /\ [][NextRet]_vars

\* ------------------------------------ references to labels not yet bound

\* programs of SBNZ(A, ZERO, B, A), JMP(B), Label(A) and Label(B), then
\* Assemble: A and B are referenced before they are bound, after, or never
PatchSBNZ == Emit(SBNZ(self, Lbl("A"), Lbl(ZERO), Lbl("B"), Lbl("A")), "SBNZ", "")

PatchJMP == Emit(JMP(self, Lbl("B")), "JMP", "B")

NextPatch ==
    \/ CallLabel
    \/ PatchSBNZ
    \/ PatchJMP
    \/ CallAssemble

SpecPatch == Init /\ [][NextPatch]_vars

\* ------------------------------------- emissions at the end of the buffer

\* DB of n bytes that are 0: they are stored from IP on, and IP += n
DBZeros(s, n) ==
    Bind(s, LAMBDA a :
        [a EXCEPT !.memory = [x \in {y \in DOMAIN a.memory : U16(y - a.ip) >= n}
                                 |-> a.memory[x]],
                  !.ip = U16(a.ip + n)])

\* the bytes left in the buffer after the caller's first, long DB
Gaps == {1, 2, 3, 8, 16, 24}

CallFill ==
    /\ pc = "fill"
    /\ \E g \in Gaps : \E a \in {DBZeros(self, MemorySize - g - ip)} : SetAsm(a)
    /\ pc' = "asm"
    /\ last' = Call("DB", "", 0)
    /\ UNCHANGED << res, cVars, nops, nsteps, nresolves, prog >>

\* an emission by the caller, wherever the cursor is
EmitAt(s, op) ==
    /\ pc = "asm"
    /\ nops < MaxOps
    /\ \E a \in {s} : SetAsm(a)
    /\ nops' = nops + 1
    /\ last' = Call(op, "", 0)
    /\ UNCHANGED << res, cVars, pc, nsteps, nresolves, prog >>

EndDB == EmitAt(DB(self, << 7 >>), "DB")

EndDD == \E w \in Words : EmitAt(DD(self, << w >>), "DD")

EndSBNZ == EmitAt(SBNZ(self, Lbl("A"), Lbl(ZERO), Lbl("B"), Lit(maxAddress)), "SBNZ")

EndMOV == EmitAt(MOV(self, Lbl("A"), Lbl("B")), "MOV")

EndADD == EmitAt(ADD(self, Lbl("A"), Lbl("B"), Lbl("B")), "ADD")

InitEnd == InitAt("fill")

NextEnd ==
    \/ CallFill
    \/ EndDB
    \/ EndDD
    \/ EndSBNZ
    \/ EndMOV
    \/ EndADD

SpecEnd == InitEnd /\ [][NextEnd]_vars

\* the same emissions, and then Assemble
NextEndAssemble ==
    \/ CallFill
    \/ EndDB
    \/ EndDD
    \/ EndSBNZ
    \/ EndMOV
    \/ EndADD
    \/ CallAssemble

SpecEndAssemble == InitEnd /\ [][NextEndAssemble]_vars

\* ------------------------------------------ the multiplication example

\* the program of the README: DST becomes OP1 times OP2 by repeated sums.
\* The operands are 3 and 2 there; OP1 is the number of rounds.
Op1Vals == {0, 1, 2, 3}
Op2Vals == {0, 2, 4660, 65535}

\* the k-th call of the program on the assembler s; v is the word of a DD
MulProgram(s, k, v) ==
    CASE k = 0 -> MOV(s, Lbl("OP1"), Lbl("CNT"))
      [] k = 1 -> MOV(s, Lbl(ZERO), Lbl("DST"))
      [] k = 2 -> Label(s, "loop")
      [] k = 3 -> BEQ(s, Lbl("CNT"), Lbl(ZERO), Lbl("exit_loop"))
      [] k = 4 -> ADD(s, Lbl("OP2"), Lbl("DST"), Lbl("DST"))
      [] k = 5 -> DEC(s, Lbl("CNT"))
      [] k = 6 -> JMP(s, Lbl("loop"))
      [] k = 7 -> Label(s, "exit_loop")
      [] k = 8 -> HLT(s)
      [] k = 9 -> Label(s, "OP1")
      [] k = 11 -> Label(s, "OP2")
      [] k = 13 -> Label(s, "DST")
      [] k = 15 -> Label(s, "CNT")
      [] OTHER -> DD(s, << v >>)

\* the words of the DDs: OP1 at call 10, OP2 at 12, DST and CNT are 0
MulWords(k) ==
    CASE k = 10 -> Op1Vals
      [] k = 12 -> Op2Vals
      [] OTHER -> {0}

MulLength == 17

\* the next call of the program; after the last the caller assembles
MulCall ==
    /\ pc = "mul"
    /\ nops < MulLength
    /\ \E v \in MulWords(nops) : \E a \in {MulProgram(self, nops, v)} : SetAsm(a)
    /\ nops' = nops + 1
    /\ pc' = IF nops + 1 = MulLength THEN "asm" ELSE "mul"
    /\ last' = Call("mul", "", nops)
    /\ UNCHANGED << res, cVars, nsteps, nresolves, prog >>

InitMul == InitAt("mul")

NextMul ==
    \/ MulCall
    \/ CallAssemble
    \/ CallLoadMemory
    \/ ProgStep

SpecMul == InitMul /\ [][NextMul]_vars

\* the caller is one sequential program: it makes its next call, and it
\* steps the machine until it is halted
SpecMulLive == SpecMul /\ WF_vars(NextMul)

\* ------------------------------------------- the assembler after Assemble

\* programs of SBNZ(A, ZERO, B, A), JMP(B), Label(A) and Label(B), then
\* Assemble, and after it Assemble again or Label(l).getAddress(a), as the
\* helpers of the assembler's tests call it; nresolves counts the calls made
\* after the first Assemble
CallAssembleAgain ==
    /\ pc = "assembled"
    /\ nresolves < MaxResolves
    /\ \E order \in RangeOrders(self) : res' = Assemble(self, order)
    /\ nresolves' = nresolves + 1
    /\ last' = Call("Assemble", "", 0)
    /\ UNCHANGED << asmVars, cVars, pc, nops, nsteps, prog >>

NextAgain ==
    \/ CallLabel
    \/ PatchSBNZ
    \/ PatchJMP
    \/ CallAssemble
    \/ CallAssembleAgain
    \/ CallGetAddress

SpecAgain == Init /\ [][NextAgain]_vars

\* ---------------------------------------- the labels that macros generate

\* programs of up to MaxOps macro instructions, each of the thirteen, on
\* the operands A and B
MacroOps == {"MOV", "JMP", "BEQ", "HLT", "NOP", "NEG", "ADD", "SUB", "INC", "DEC",
             "PUSH", "POP", "NOT"}

MacroOf(s, op) ==
    CASE op = "MOV" -> MOV(s, Lbl("A"), Lbl("B"))
      [] op = "JMP" -> JMP(s, Lbl("A"))
      [] op = "BEQ" -> BEQ(s, Lbl("A"), Lbl("B"), Lbl("A"))
      [] op = "HLT" -> HLT(s)
      [] op = "NOP" -> NOP(s)
      [] op = "NEG" -> NEG(s, Lbl("A"), Lbl("B"))
      [] op = "ADD" -> ADD(s, Lbl("A"), Lbl("B"), Lbl("B"))
      [] op = "SUB" -> SUB(s, Lbl("A"), Lbl("B"), Lbl("B"))
      [] op = "INC" -> INC(s, Lbl("A"))
      [] op = "DEC" -> DEC(s, Lbl("A"))
      [] op = "PUSH" -> PUSH(s, Lbl("A"))
      [] op = "POP" -> POP(s, Lbl("B"))
      [] op = "NOT" -> NOT(s, Lbl("A"), Lbl("B"))

CallMacro == \E op \in MacroOps : Emit(MacroOf(self, op), op, "")

NextLabels == CallMacro

SpecLabels == Init /\ [][NextLabels]_vars

\* ------------------------------------------------- words in memory

\* a word emitted with DD at the even address after the preamble, or at the
\* odd one after a DB; the image loaded; then up to MaxSteps calls of
\* putOperand and Peek at even and odd addresses and at the last address.
\* prog records the calls: [op, at, val], val the word passed or returned.
WordVals == {258, 64186}
OperandVals == {772, -1350}
WordAddrs == {107, 108, 65535}

WordDB ==
    /\ pc = "asm"
    /\ prog = << >>
    /\ nops = 0
    /\ \E a \in {DB(self, << 7 >>)} : SetAsm(a)
    /\ nops' = nops + 1
    /\ last' = Call("DB", "", 0)
    /\ UNCHANGED << res, cVars, pc, nsteps, nresolves, prog >>

WordDD ==
    /\ pc = "asm"
    /\ prog = << >>
    /\ \E w \in WordVals :
        /\ \E a \in {DD(self, << w >>)} : SetAsm(a)
        /\ prog' = << [op |-> "DD", at |-> ip, val |-> w] >>
    /\ last' = Call("DD", "", 0)
    /\ UNCHANGED << res, cVars, pc, nops, nsteps, nresolves >>

WordPut ==
    /\ pc = "run"
    /\ nsteps < MaxSteps
    /\ \E a \in WordAddrs, v \in OperandVals :
        /\ \E c \in {putOperand(computer, a, v)} : SetComputer(c)
        /\ prog' = Append(prog, [op |-> "putOperand", at |-> a, val |-> v])
    /\ nsteps' = nsteps + 1
    /\ last' = Call("putOperand", "", 0)
    /\ UNCHANGED << asmVars, res, pc, nops, nresolves >>

WordPeek ==
    /\ pc = "run"
    /\ nsteps < MaxSteps
    /\ \E a \in WordAddrs :
        /\ prog' = Append(prog, [op |-> "Peek", at |-> a, val |-> Peek(computer, a)])
    /\ nsteps' = nsteps + 1
    /\ last' = Call("Peek", "", 0)
    /\ UNCHANGED << asmVars, res, cVars, pc, nops, nresolves >>

NextWord ==
    \/ WordDB
    \/ WordDD
    \/ CallAssemble
    \/ CallLoadMemory
    \/ WordPut
    \/ WordPeek

SpecWord == Init /\ [][NextWord]_vars

\* ------------------------- the machine storing into its own instruction

\* images of one instruction at 0 whose result field points into the
\* instruction itself: at its C field, at its D field, or across two fields
SelfC == {3, 4, 5, 6, 7}
SelfD == {16, 250, 65535}
SelfX == {0, 5, 65535}
SelfY == {0, 2, 5}

CallLoadSelf ==
    /\ pc = "raw"
    /\ \E C \in SelfC, D \in SelfD, x \in SelfX, y \in SelfY :
        \E c \in {LoadMemory(computer, RawImage(<< 8, 10, C, D, x, y >>))} :
            SetComputer(c)
    /\ pc' = "run"
    /\ last' = Call("LoadMemory", "", 0)
    /\ UNCHANGED << asmVars, res, nops, nsteps, nresolves, prog >>

NextSelf ==
    \/ CallLoadSelf
    \/ CallStep

SpecSelf == InitVM /\ [][NextSelf]_vars

\* ------------------------------------------- the first assembler

\* The assembler of the 8-bit machine (src/main.go and the second half of
\* src/assembler/main.go): instructions are kept with their D operand
\* unresolved, a ProgramAddress or a Label, and Assemble resolves it with
\* GetAddress.  Its fields are kept in ip, labels and label_cnt, and its
\* instructions, [a, b, c, d], in prog.
MaxProgramAddress == 255
OldONE == 253
OldZERO == 254
OldJUNK == 255

NewAssembler == [ip |-> 0, labels |-> [x \in {} |-> 0], label_cnt |-> 0,
                 instructions |-> << >>]

old == [ip |-> ip, labels |-> labels, label_cnt |-> label_cnt, instructions |-> prog]

\* ProgramAddress.GetAddress and Label.GetAddress: a.labels[self], which is
\* Go's zero value for a label that is not in the map
GetAddress(v, a) ==
    IF v.k = "addr"
    THEN [status |-> "ok", addr |-> v.v]
    ELSE [status |-> "ok", addr |-> Lookup(a.labels, v.n)]

\* the first assembler's SBNZ, label and JMP; ProgramAddress is uint8
OldSBNZ(a, A, B, C, D) ==
    [a EXCEPT !.instructions = Append(@, [a |-> A, b |-> B, c |-> C, d |-> D]),
              !.ip = (a.ip + 1) % 256]

OldLabel(a, l) == [a EXCEPT !.labels = MapPut(a.labels, l, a.ip)]

OldJMP(a, t) == OldSBNZ(a, OldONE, OldZERO, OldJUNK, t)

\* the first assembler's Assemble: the D operand of every instruction
\* resolved; the status is that of the GetAddress calls
OldAssemble(a) ==
    Bind([i \in 1..Len(a.instructions) |-> GetAddress(a.instructions[i].d, a)], LAMBDA r :
        [status |-> IF \E i \in DOMAIN r : r[i].status = "panic" THEN "panic" ELSE "ok",
         len |-> Len(a.instructions),
         bytes |-> [i \in DOMAIN r |-> r[i].addr]])

SetOld(a) ==
    /\ ip' = a.ip
    /\ labels' = a.labels
    /\ label_cnt' = a.label_cnt
    /\ prog' = a.instructions
    /\ UNCHANGED << unresolved, memory, refs, defs >>

OldTargets == UserOperands \cup {Lit(MaxProgramAddress)}

OldCallLabel ==
    /\ pc = "old"
    /\ nops < MaxOps
    /\ \E n \in UserLabels :
        /\ SetOld(OldLabel(old, n))
        /\ last' = Call("label", n, 0)
    /\ nops' = nops + 1
    /\ UNCHANGED << res, cVars, pc, nsteps, nresolves >>

OldCallJMP ==
    /\ pc = "old"
    /\ nops < MaxOps
    /\ \E t \in OldTargets : SetOld(OldJMP(old, t))
    /\ last' = Call("JMP", "", 0)
    /\ nops' = nops + 1
    /\ UNCHANGED << res, cVars, pc, nsteps, nresolves >>

OldCallGetAddress ==
    /\ pc = "old"
    /\ nresolves < MaxResolves
    /\ \E l \in UserLabels : \E r \in {GetAddress(Lbl(l), old)} :
        /\ res' = [NoRes EXCEPT !.status = r.status]
        /\ last' = Call("GetAddress", l, r.addr)
    /\ nresolves' = nresolves + 1
    /\ UNCHANGED << asmVars, cVars, pc, nops, nsteps, prog >>

OldCallAssemble ==
    /\ pc = "old"
    /\ res' = OldAssemble(old)
    /\ pc' = "assembled"
    /\ last' = Call("Assemble", "", 0)
    /\ UNCHANGED << asmVars, cVars, nops, nsteps, nresolves, prog >>

InitOld ==
    /\ ip = NewAssembler.ip
    /\ labels = NewAssembler.labels
    /\ label_cnt = NewAssembler.label_cnt
    /\ prog = NewAssembler.instructions
    /\ unresolved = Zero.unresolved
    /\ memory = EmptyMem
    /\ refs = {}
    /\ defs = {}
    /\ res = NoRes
    /\ c_ip = Computer.ip
    /\ c_memory = Computer.memory
    /\ pc = "old"
    /\ nops = 0
    /\ nsteps = 0
    /\ nresolves = 0
    /\ last = Call("NewAssembler", "", 0)

NextOld ==
    \/ OldCallLabel
    \/ OldCallJMP
    \/ OldCallGetAddress
    \/ OldCallAssemble

SpecOld == InitOld /\ [][NextOld]_vars

\* ------------------------------------------- pushes followed by pops

\* programs of k pushes of the cells V1 .. Vk followed by k pops, then HLT
\* and the cells: V1 .. Vk with their words, R1 .. Rk with 0. The i-th POP
\* is into Ri or into the __ZERO cell.
MaxDepth == 2
LifoVals == {1, 4660, 65535}
VCells == << "V1", "V2", "V3", "V4" >>
RCells == << "R1", "R2", "R3", "R4" >>

Pushes == Cardinality({i \in 1..Len(prog) : prog[i].op = "PUSH"})
Pops == Cardinality({i \in 1..Len(prog) : prog[i].op = "POP"})

\* the Steps of a run: the jump to __start, 9 a PUSH, 10 a POP, and HLT
LifoRun == 2 + 19 * MaxDepth

EmitLifo(s, op, src, dst) ==
    /\ pc = "code"
    /\ \E t \in {s} :
        /\ SetAsm(t)
        /\ prog' = Append(prog, [op |-> op, src |-> src, dst |-> dst,
                                 at |-> ip, end |-> t.ip])
    /\ last' = Call(op, "", 0)
    /\ UNCHANGED << res, cVars, pc, nops, nsteps, nresolves >>

LifoPUSH ==
    /\ Pops = 0
    /\ Pushes < MaxDepth
    /\ \E src \in {Lbl(VCells[Pushes + 1])} :
        EmitLifo(PUSH(self, src), "PUSH", src, Lbl("__push_operand"))

LifoPOP ==
    /\ Pops < Pushes
    /\ \E dst \in {Lbl(RCells[Pops + 1]), Lbl(ZERO)} :
        EmitLifo(POP(self, dst), "POP", Lbl("__push_operand"), dst)

LifoHLT ==
    /\ pc = "code"
    /\ Pushes > 0
    /\ Pops = Pushes
    /\ \E a \in {HLT(self)} : SetAsm(a)
    /\ pc' = "cells"
    /\ last' = Call("HLT", "", 0)
    /\ UNCHANGED << res, cVars, nops, nsteps, nresolves, prog >>

\* the cells in the order they are emitted
LifoCells == SubSeq(VCells, 1, Pushes) \o SubSeq(RCells, 1, Pushes)

\* the caller has made nops calls of Label and DD: Label(c); DD(v) a cell
LifoLabel ==
    /\ pc = "cells"
    /\ nops % 2 = 0
    /\ \E n \in {LifoCells[(nops \div 2) + 1]} :
        /\ \E a \in {Label(self, n)} : SetAsm(a)
        /\ last' = Call("Label", n, 0)
    /\ nops' = nops + 1
    /\ UNCHANGED << res, cVars, pc, nsteps, nresolves, prog >>

LifoDD ==
    /\ pc = "cells"
    /\ nops % 2 = 1
    /\ \E v \in (IF nops < 2 * Pushes THEN LifoVals ELSE {0}) :
        \E a \in {DD(self, << v >>)} : SetAsm(a)
    /\ nops' = nops + 1
    /\ pc' = IF nops + 1 = 2 * Len(LifoCells) THEN "asm" ELSE "cells"
    /\ last' = Call("DD", "", 0)
    /\ UNCHANGED << res, cVars, nsteps, nresolves, prog >>

LifoStep ==
    /\ pc = "run"
    /\ nsteps < LifoRun
    /\ ~Halted(computer)
    /\ \E c \in {Step(computer)} : SetComputer(c)
    /\ nsteps' = nsteps + 1
    /\ last' = Call("Step", "", 0)
    /\ UNCHANGED << asmVars, res, pc, nops, nresolves, prog >>

NextLifo ==
    \/ LifoPUSH
    \/ LifoPOP
    \/ LifoHLT
    \/ LifoLabel
    \/ LifoDD
    \/ CallAssemble
    \/ CallLoadMemory
    \/ LifoStep

SpecLifo == InitRun /\ [][NextLifo]_vars

\* ------------------------------------- programs of the ten plain macros

\* programs of up to MaxMacros of MOV, NEG, ADD, SUB, INC, DEC, NOT, NOP,
\* PUSH and POP on the cells X and Y, then HLT and the two cells. MOV is
\* also into the __ZERO cell and into the stack pointer.
AllXVals == {10, 4660}
AllYVals == {0, 65535}
AllCells == << "X", "Y" >>

\* the Steps of the longest run: the jump to __start, 10 a macro, and HLT
AllRun == 2 + 10 * MaxMacros

AllMOV ==
    \E m \in {<< Lbl("X"), Lbl("Y") >>, << Lbl(ONE), Lbl(ZERO) >>,
              << Lbl("X"), Lbl("__SP") >>} :
        EmitMacro(MOV(self, m[1], m[2]), "MOV", m[1], m[2])

AllNEG == EmitMacro(NEG(self, Lbl("X"), Lbl("Y")), "NEG", Lbl("X"), Lbl("Y"))

AllADD ==
    EmitMacro3(ADD(self, Lbl("X"), Lbl("Y"), Lbl("Y")), "ADD", Lbl("X"), Lbl("Y"), Lbl("Y"))

AllSUB ==
    EmitMacro3(SUB(self, Lbl("X"), Lbl("Y"), Lbl("Y")), "SUB", Lbl("X"), Lbl("Y"), Lbl("Y"))

AllINC == EmitMacro(INC(self, Lbl("Y")), "INC", Lbl("Y"), Lbl("Y"))

AllDEC == EmitMacro(DEC(self, Lbl("Y")), "DEC", Lbl("Y"), Lbl("Y"))

AllNOT == EmitMacro(NOT(self, Lbl("X"), Lbl("Y")), "NOT", Lbl("X"), Lbl("Y"))

AllNOP == EmitMacro(NOP(self), "NOP", Lbl(JUNK), Lbl(JUNK))

AllPUSH == EmitMacro(PUSH(self, Lbl("X")), "PUSH", Lbl("X"), Lbl("__push_operand"))

AllPOP == EmitMacro(POP(self, Lbl("Y")), "POP", Lbl("__push_operand"), Lbl("Y"))

AllHLT ==
    /\ pc = "code"
    /\ \E a \in {HLT(self)} : SetAsm(a)
    /\ pc' = "cells"
    /\ last' = Call("HLT", "", 0)
    /\ UNCHANGED << res, cVars, nops, nsteps, nresolves, prog >>

\* the caller has made nops calls of Label and DD: Label(c); DD(v) a cell
AllLabel ==
    /\ pc = "cells"
    /\ nops % 2 = 0
    /\ \E n \in {AllCells[(nops \div 2) + 1]} :
        /\ \E a \in {Label(self, n)} : SetAsm(a)
        /\ last' = Call("Label", n, 0)
    /\ nops' = nops + 1
    /\ UNCHANGED << res, cVars, pc, nsteps, nresolves, prog >>

AllDD ==
    /\ pc = "cells"
    /\ nops % 2 = 1
    /\ \E v \in (IF nops = 1 THEN AllXVals ELSE AllYVals) :
        \E a \in {DD(self, << v >>)} : SetAsm(a)
    /\ nops' = nops + 1
    /\ pc' = IF nops + 1 = 2 * Len(AllCells) THEN "asm" ELSE "cells"
    /\ last' = Call("DD", "", 0)
    /\ UNCHANGED << res, cVars, nsteps, nresolves, prog >>

AllStep ==
    /\ pc = "run"
    /\ nsteps < AllRun
    /\ ~Halted(computer)
    /\ \E c \in {Step(computer)} : SetComputer(c)
    /\ nsteps' = nsteps + 1
    /\ last' = Call("Step", "", 0)
    /\ UNCHANGED << asmVars, res, pc, nops, nresolves, prog >>

NextAll ==
    \/ AllMOV
    \/ AllNEG
    \/ AllADD
    \/ AllSUB
    \/ AllINC
    \/ AllDEC
    \/ AllNOT
    \/ AllNOP
    \/ AllPUSH
    \/ AllPOP
    \/ AllHLT
    \/ AllLabel
    \/ AllDD
    \/ CallAssemble
    \/ CallLoadMemory
    \/ AllStep

SpecAll == InitRun /\ [][NextAll]_vars

\* ------------------------------------------ programs that run to the halt

\* the same programs on two cells that hold 0x1234, without the MOV into the
\* stack pointer; the caller steps the machine until it is halted
HaltVal == 4660

HaltMOV ==
    \E m \in {<< Lbl("X"), Lbl("Y") >>, << Lbl(ONE), Lbl(ZERO) >>} :
        EmitMacro(MOV(self, m[1], m[2]), "MOV", m[1], m[2])

HaltDD ==
    /\ pc = "cells"
    /\ nops % 2 = 1
    /\ \E a \in {DD(self, << HaltVal >>)} : SetAsm(a)
    /\ nops' = nops + 1
    /\ pc' = IF nops + 1 = 2 * Len(AllCells) THEN "asm" ELSE "cells"
    /\ last' = Call("DD", "", 0)
    /\ UNCHANGED << res, cVars, nsteps, nresolves, prog >>

NextHalt ==
    \/ HaltMOV
    \/ AllNEG
    \/ AllADD
    \/ AllSUB
    \/ AllINC
    \/ AllDEC
    \/ AllNOT
    \/ AllNOP
    \/ AllPUSH
    \/ AllPOP
    \/ AllHLT
    \/ AllLabel
    \/ HaltDD
    \/ CallAssemble
    \/ CallLoadMemory
    \/ AllStep

SpecHalt == InitRun /\ [][NextHalt]_vars

\* the caller is one sequential program: it makes its next call, and it
\* steps the machine until it is halted
SpecHaltLive == SpecHalt /\ WF_vars(NextHalt)

\* -------------------------------------------------------------- claims

\* the fields of the instruction at the IP and the operands they point at,
\* read from the bytes of memory before a step
FieldA == GetWord(c_memory, c_ip)
FieldB == GetWord(c_memory, U16(c_ip + 2))
FieldC == GetWord(c_memory, U16(c_ip + 4))
FieldD == GetWord(c_memory, U16(c_ip + 6))
Difference == (GetWord(c_memory, FieldA) - GetWord(c_memory, FieldB)) % 65536

StepTaken == pc = "run" /\ nsteps' = nsteps + 1

\* C1: one Step of a machine that is not halted leaves the cell at C equal
\* to (x - y) mod 2^16, x and y being the cells at A and B before the step,
\* and sets the PC to D when that is nonzero and to PC + 8 when it is zero.
C1_StepSubtractsAndBranches ==
    [][(StepTaken /\ c_ip # 65535) =>
          /\ GetWord(c_memory', FieldC) = Difference
          /\ Difference # 0 => c_ip' = FieldD
          /\ Difference = 0 => c_ip' = (c_ip + 8) % 65536]_vars

C1_Witness ==
    /\ nsteps = 1
    /\ GetWord(c_memory, 0) = 8 /\ GetWord(c_memory, 2) = 10 /\ GetWord(c_memory, 4) = 12
    /\ GetWord(c_memory, 8) = 2 /\ GetWord(c_memory, 10) = 5
    /\ GetWord(c_memory, 12) = 65533
    /\ c_ip = 250

\* C2: Halted() is true exactly when the PC is 0xFFFF, and a Step of a
\* halted machine changes neither a byte of memory nor the PC.
C2_HaltedIsFinal ==
    [][/\ Halted(computer) <=> c_ip = 65535
       /\ (StepTaken /\ c_ip = 65535) => (c_memory' = c_memory /\ c_ip' = c_ip)]_vars

C2_Witness ==
    c_ip = 65535 /\ last.op = "Step" /\ last.ret = 1 /\ nsteps >= 2

\* C3: when the result cell is one of the operand cells, or the operand
\* cells are the same cell, the result stored and the branch taken are those
\* of the contents the cells had before the step.
C3_OperandsReadBeforeStore ==
    [][(StepTaken /\ c_ip # 65535 /\
            (FieldC = FieldA \/ FieldC = FieldB \/ FieldA = FieldB)) =>
          /\ GetWord(c_memory', FieldC) = Difference
          /\ c_ip' = IF Difference # 0 THEN FieldD ELSE (c_ip + 8) % 65536
          /\ FieldA = FieldB => (GetWord(c_memory', FieldC) = 0 /\ c_ip' = (c_ip + 8) % 65536)]_vars

\* B = C: the cell at B held 2 and holds 5 - 2
C3_Witness ==
    /\ nsteps = 1
    /\ GetWord(c_memory, 0) = 8 /\ GetWord(c_memory, 2) = 10 /\ GetWord(c_memory, 4) = 10
    /\ GetWord(c_memory, 8) = 5 /\ GetWord(c_memory, 10) = 3
    /\ c_ip = 250


\* the addresses a label was ever bound to
BoundTo(l) == {d.addr : d \in {e \in defs : e.label = l}}

\* the sites recorded for the labels of unresolved
Sites(u) == UNION {{u[l][i] : i \in 1..Len(u[l])} : l \in DOMAIN u}

\* C4 as claimed: in the image, every operand emitted through a label holds
\* the address the label is bound to when Assemble is called, and two
\* operands emitted through the same label hold the same bytes.
C4_EveryReferenceHoldsFinalAddress ==
    last.op = "Assemble" =>
        /\ \A r \in refs : r.label \in DOMAIN labels =>
               GetWord(res.bytes, r.site) = labels[r.label]
        /\ \A r1 \in refs, r2 \in refs : r1.label = r2.label =>
               GetWord(res.bytes, r1.site) = GetWord(res.bytes, r2.site)

\* C4 amended: that holds of every label that was never bound to a second
\* address.
C4_ReferencesOfLabelBoundOnce ==
    last.op = "Assemble" =>
        \A r1 \in refs : Cardinality(BoundTo(r1.label)) = 1 =>
            /\ GetWord(res.bytes, r1.site) = labels[r1.label]
            /\ \A r2 \in refs : r1.label = r2.label =>
                   GetWord(res.bytes, r1.site) = GetWord(res.bytes, r2.site)

\* a user label referenced before its definition and after it
C4_Witness ==
    /\ last.op = "Assemble"
    /\ \E l \in UserLabels :
        /\ Cardinality(BoundTo(l)) = 1
        /\ \E r1 \in refs, r2 \in refs :
            /\ r1.label = l /\ r2.label = l
            /\ r1.site < labels[l] /\ r2.site >= labels[l]
            /\ GetWord(memory, r1.site) = 65535
            /\ GetWord(res.bytes, r1.site) = labels[l]

\* C5: getAddress of a label that is not bound returns 0xFFFF and appends
\* the cursor, and nothing else, to the label's pending list; of a label
\* that is bound it returns the bound address and leaves every pending list
\* as it was.
C5_GetAddress ==
    [][(last'.op = "getAddress" /\ nresolves' = nresolves + 1) =>
          IF last'.label \in DOMAIN labels
          THEN /\ last'.ret = labels[last'.label]
               /\ unresolved' = unresolved
          ELSE /\ last'.ret = 65535
               /\ DOMAIN unresolved' = DOMAIN unresolved \cup {last'.label}
               /\ unresolved'[last'.label] =
                      (IF last'.label \in DOMAIN unresolved
                       THEN unresolved[last'.label] ELSE << >>) \o << ip >>
               /\ \A l \in DOMAIN unresolved : l # last'.label =>
                      unresolved'[l] = unresolved[l]]_vars

\* an unbound label whose pending list the call extended
C5_Witness ==
    /\ last.op = "getAddress" /\ last.ret = 65535
    /\ last.label \notin DOMAIN labels
    /\ Len(unresolved[last.label]) >= 2
    /\ unresolved[last.label][Len(unresolved[last.label])] = ip

\* C6: Label(name) binds name to the cursor, emits nothing and leaves the
\* cursor and every other binding as they were; a name that is bound is
\* bound anew.
C6_LabelBindsToCursor ==
    [][(last'.op = "Label" /\ nops' = nops + 1) =>
          /\ DOMAIN labels' = DOMAIN labels \cup {last'.label}
          /\ labels'[last'.label] = ip
          /\ \A l \in DOMAIN labels : l # last'.label => labels'[l] = labels[l]
          /\ ip' = ip
          /\ memory' = memory
          /\ unresolved' = unresolved]_vars

\* a label bound a second time, to another address
C6_Witness ==
    /\ last.op = "Label"
    /\ Cardinality(BoundTo(last.label)) = 2
    /\ labels[last.label] = ip

\* C7: Assemble returns also when a label was referenced and never defined,
\* and the image holds 0x0000 at every site recorded for such a label.
C7_UndefinedLabelIsZero ==
    last.op = "Assemble" =>
        /\ res.status = "ok"
        /\ \A l \in (DOMAIN unresolved) \ (DOMAIN labels) :
               \A i \in 1..Len(unresolved[l]) :
                   GetWord(res.bytes, unresolved[l][i]) = 0

C7_Witness ==
    /\ last.op = "Assemble"
    /\ res.status = "ok"
    /\ \E l \in (DOMAIN unresolved) \ (DOMAIN labels) :
        /\ GetWord(memory, unresolved[l][1]) = 65535
        /\ GetWord(res.bytes, unresolved[l][1]) = 0

\* C8: the image is as long as the cursor and holds the emitted byte at
\* every offset outside the two bytes of each recorded site.
C8_ImageIsEmittedBytes ==
    last.op = "Assemble" =>
        /\ res.status = "ok"
        /\ res.len = ip
        /\ \A x \in DOMAIN res.bytes : x < res.len
        /\ \A x \in 0..(ip - 1) :
               (x \notin Sites(unresolved) /\ x - 1 \notin Sites(unresolved)) =>
                   GetByte(res.bytes, x) = GetByte(memory, x)

\* an image with user bytes in it and a site whose bytes were replaced
C8_Witness ==
    /\ last.op = "Assemble"
    /\ res.len = ip /\ ip > 114
    /\ \E x \in Sites(unresolved) : x >= 106 /\ GetWord(res.bytes, x) # GetWord(memory, x)
    /\ \E x \in DOMAIN memory : x >= 106 /\ x \notin Sites(unresolved)
                                 /\ x - 1 \notin Sites(unresolved)
                                 /\ GetByte(res.bytes, x) = memory[x]

\* C9: the preamble: the labels New defines are where the memory layout
\* says, every image starts with SBNZ __ONE, __ZERO, __JUNK, __start and
\* holds 1, 0 and 0xFFFE in __ONE, __ZERO and __SP, the first emission of the
\* caller is at __start, and the first Step of the loaded image sets the PC
\* to __start.
C9_Preamble ==
    /\ labels["__ONE"] = 8 /\ labels["__ZERO"] = 10 /\ labels["__JUNK"] = 12
    /\ labels["__SP"] = 16 /\ labels["__push"] = 18 /\ labels["__pop"] = 58
    /\ labels["__start"] = 106
    /\ nops = 0 => ip = 106
    /\ res.status = "ok" =>
          /\ GetWord(res.bytes, 0) = 8 /\ GetWord(res.bytes, 2) = 10
          /\ GetWord(res.bytes, 4) = 12 /\ GetWord(res.bytes, 6) = 106
          /\ GetWord(res.bytes, 8) = 1 /\ GetWord(res.bytes, 10) = 0
          /\ GetWord(res.bytes, 16) = 65534
    /\ pc = "run" /\ nsteps = 0 => c_ip = 0
    /\ pc = "run" /\ nsteps = 1 => c_ip = 106

C9_Witness ==
    /\ pc = "run" /\ nsteps = 1 /\ c_ip = 106
    /\ nops > 0 /\ res.len > 106
    /\ GetWord(c_memory, 6) = 106

\* the address an operand of the program stands for, and the cell there
AddressOf(v) == IF v.k = "label" THEN Lookup(labels, v.n) ELSE v.v
Cell(m, v) == GetWord(m, AddressOf(v))

\* a Step at the first byte of the macro instruction m of the program
Executes(m, op) == StepTaken /\ m.op = op /\ c_ip = m.at

\* two word cells that are the same cell or share no byte
SameOrApart(x, y) == x = y \/ (y # U16(x + 1) /\ x # U16(y + 1))

\* one Step from the first byte of MOV(src, dst) ends after its expansion,
\* with dst holding what src held and src holding what it held
MOVDone(m) ==
    /\ c_ip' = m.end
    /\ GetWord(c_memory', AddressOf(m.dst)) = Cell(c_memory, m.src)
    /\ GetWord(c_memory', AddressOf(m.src)) = Cell(c_memory, m.src)

\* C10 as claimed: one Step executes MOV(src, dst): the PC is then after
\* the expansion, the dst cell holds the value the src cell held, whatever
\* 16-bit value that is, and the src cell still holds it.
C10_MOVCopiesEveryValue ==
    [][\A i \in 1..Len(prog) : Executes(prog[i], "MOV") => MOVDone(prog[i])]_vars

\* C10 amended: that holds when the __ZERO cell holds 0 as the MOV executes
\* and src and dst are the same cell or cells that share no byte.
C10_MOVCopiesWhenZeroIsZero ==
    [][\A i \in 1..Len(prog) :
          (/\ Executes(prog[i], "MOV")
           /\ Cell(c_memory, Lbl(ZERO)) = 0
           /\ SameOrApart(AddressOf(prog[i].src), AddressOf(prog[i].dst)))
          => MOVDone(prog[i])]_vars

\* MOV(X, Y) has copied 0 over Y's 0x1234, and ONE has then been copied
C10_Witness ==
    /\ pc = "run" /\ nsteps = 3 /\ Len(prog) = 2
    /\ prog[1].src = Lbl("X") /\ prog[1].dst = Lbl("Y")
    /\ prog[2].src = Lbl(ONE) /\ prog[2].dst = Lbl("X")
    /\ labels["Y"] = labels["X"] + 2
    /\ GetWord(res.bytes, labels["X"]) = 0 /\ GetWord(res.bytes, labels["Y"]) = 4660
    /\ GetWord(c_memory, labels["Y"]) = 0 /\ GetWord(c_memory, labels["X"]) = 1
    /\ c_ip = prog[2].end

\* the machine after k Steps of the machine c
RECURSIVE Run(_, _)
Run(c, k) == IF k = 0 THEN c ELSE Run(Step(c), k - 1)

\* the word of the machine c that the operand v stands for
CellOf(c, v) == GetWord(c.memory, AddressOf(v))

\* the bytes of the macro instruction m are those of the image
Intact(m) == \A x \in m.at..(m.end - 1) : GetByte(c_memory, x) = GetByte(res.bytes, x)

\* the loaded machine is at the first byte of the macro instruction m
At(m, op) == pc = "run" /\ m.op = op /\ c_ip = m.at /\ Intact(m)

\* the macro instructions i and i + 1 of the program are the same MOV
MOVTwice(i) ==
    /\ At(prog[i], "MOV")
    /\ prog[i + 1].op = "MOV"
    /\ prog[i + 1].src = prog[i].src /\ prog[i + 1].dst = prog[i].dst

\* C11 as claimed: MOV(src, dst) executed twice in sequence: dst equals src
\* after the first and after the second.
C11_MOVTwiceLeavesDstEqualSrc ==
    \A i \in 1..(Len(prog) - 1) : MOVTwice(i) =>
        \A c1 \in {Step(computer)} : \A c2 \in {Step(c1)} :
            /\ CellOf(c1, prog[i].dst) = CellOf(c1, prog[i].src)
            /\ CellOf(c2, prog[i].dst) = CellOf(c2, prog[i].src)

\* C11 amended: that holds when the __ZERO cell holds 0 as each of the two
\* executes and src and dst are the same cell or cells that share no byte.
C11_MOVTwiceWhenZeroIsZero ==
    \A i \in 1..(Len(prog) - 1) : MOVTwice(i) =>
        \A c1 \in {Step(computer)} : \A c2 \in {Step(c1)} :
            (/\ CellOf(computer, Lbl(ZERO)) = 0 /\ CellOf(c1, Lbl(ZERO)) = 0
             /\ SameOrApart(AddressOf(prog[i].src), AddressOf(prog[i].dst)))
            => /\ CellOf(c1, prog[i].dst) = CellOf(c1, prog[i].src)
               /\ CellOf(c2, prog[i].dst) = CellOf(c2, prog[i].src)

\* MOV(X, Y) twice has run: Y held 0, X holds 0x1234, and so does Y
C11_Witness ==
    /\ pc = "run" /\ nsteps = 3 /\ Len(prog) = 2
    /\ prog[1].src = Lbl("X") /\ prog[1].dst = Lbl("Y")
    /\ prog[2].src = Lbl("X") /\ prog[2].dst = Lbl("Y")
    /\ labels["Y"] = labels["X"] + 2
    /\ GetWord(res.bytes, labels["X"]) = 4660 /\ GetWord(res.bytes, labels["Y"]) = 0
    /\ GetWord(c_memory, labels["X"]) = 4660 /\ GetWord(c_memory, labels["Y"]) = 4660
    /\ c_ip = prog[2].end

\* the __ONE cell holds 1 and the __ZERO cell holds 0
OneAndZero(c) == CellOf(c, Lbl(ONE)) = 1 /\ CellOf(c, Lbl(ZERO)) = 0

\* C12: with 1 in the __ONE cell and 0 in the __ZERO cell, one Step at a
\* JMP(target) whose target is bound, before the JMP or after it, sets the PC
\* to the address the target is bound to.
C12_JMPSetsPCToTarget ==
    [][\A i \in 1..Len(prog) :
          (/\ StepTaken /\ At(prog[i], "JMP")
           /\ prog[i].dst.n \in DOMAIN labels
           /\ OneAndZero(computer))
          => c_ip' = labels[prog[i].dst.n]]_vars

\* JMP(T); MOV(X, Y); T: the JMP has skipped the MOV
C12_Witness ==
    /\ pc = "run" /\ nsteps = 2 /\ Len(prog) = 3
    /\ prog[1].op = "JMP" /\ prog[2].op = "MOV" /\ prog[3].op = "HLT"
    /\ prog[2].src = Lbl("X") /\ prog[2].dst = Lbl("Y")
    /\ Target \in DOMAIN labels /\ labels[Target] = prog[2].end
    /\ c_ip = labels[Target]
    /\ GetWord(c_memory, labels["X"]) = 4660 /\ GetWord(c_memory, labels["Y"]) = 0

\* BEQ(a, b, target) at the PC: with equal cells the PC is at the target
\* after two Steps, with different cells it is after the expansion after one
BEQDone(m) ==
    IF CellOf(computer, m.src) = CellOf(computer, m.b)
    THEN Run(computer, 2).ip = AddressOf(m.dst)
    ELSE Run(computer, 1).ip = m.end

\* C13 as claimed: BEQ(a, b, target) sets the PC to the target, in two
\* Steps, when the cells a and b hold equal values as the comparison
\* executes, and otherwise, in one Step, to the address after its expansion.
C13_BEQBranchesIffEqual ==
    \A i \in 1..Len(prog) : At(prog[i], "BEQ") => BEQDone(prog[i])

\* C13 amended: that holds when the __ONE cell holds 1 and the __ZERO cell
\* holds 0.
C13_BEQBranchesIffEqualWhenOneAndZero ==
    \A i \in 1..Len(prog) :
        (At(prog[i], "BEQ") /\ OneAndZero(computer)) => BEQDone(prog[i])

\* BEQ(X, Y, T); MOV(ONE, ZERO); T with 0x1234 in both cells: the branch
\* has skipped the MOV
C13_Witness ==
    /\ pc = "run" /\ nsteps = 3 /\ Len(prog) = 3
    /\ prog[1].op = "BEQ" /\ prog[2].op = "MOV" /\ prog[2].dst = Lbl(ZERO)
    /\ Target \in DOMAIN labels /\ labels[Target] = prog[2].end
    /\ c_ip = labels[Target]
    /\ labels["Y"] = labels["X"] + 2
    /\ GetWord(c_memory, labels["X"]) = 4660 /\ GetWord(c_memory, labels["Y"]) = 4660
    /\ CellOf(computer, Lbl(ZERO)) = 0

\* ADD(a, b, dst) at the PC: two Steps end after its expansion with the sum
\* of what a and b held in dst
ADDDone(m) ==
    \A c2 \in {Run(computer, 2)} :
        /\ c2.ip = m.end
        /\ CellOf(c2, m.dst) = U16(CellOf(computer, m.src) + CellOf(computer, m.b))

\* C14 as claimed: ADD(a, b, dst) takes two Steps and leaves in dst the sum
\* mod 2^16 of the values a and b held, whichever of a, b and dst are the same
\* cell.
C14_ADDAdds ==
    \A i \in 1..Len(prog) : At(prog[i], "ADD") => ADDDone(prog[i])

\* C14 amended: that holds when the __ZERO cell holds 0.
C14_ADDAddsWhenZeroIsZero ==
    \A i \in 1..Len(prog) :
        (At(prog[i], "ADD") /\ CellOf(computer, Lbl(ZERO)) = 0) => ADDDone(prog[i])

\* ADD(X, Y, far) has added 0x1234 and 0x2345, and ADD(X, Y, X) has then
\* added 0x1234 and 0x2345 into X
C14_Witness ==
    /\ pc = "run" /\ nsteps = 5 /\ Len(prog) = 3
    /\ prog[1].op = "ADD" /\ prog[1].dst = Far
    /\ prog[2].op = "ADD" /\ prog[2].dst = Lbl("X")
    /\ c_ip = prog[2].end
    /\ GetWord(res.bytes, labels["X"]) = 4660 /\ GetWord(res.bytes, labels["Y"]) = 9029
    /\ GetWord(c_memory, Far.v) = 13689
    /\ GetWord(c_memory, labels["X"]) = 13689 /\ GetWord(c_memory, labels["Y"]) = 9029

\* one Step from the first byte of NEG(src, dst) ends after its expansion
\* with 0 minus what src held in dst
NEGDone(m) ==
    /\ c_ip' = m.end
    /\ GetWord(c_memory', AddressOf(m.dst)) = U16(0 - CellOf(computer, m.src))

\* C15 as claimed: NEG(src, dst) takes one Step and leaves in dst 0 minus
\* the value src held, mod 2^16, also when that value is 0 and when src and
\* dst are one cell.
C15_NEGNegates ==
    [][\A i \in 1..Len(prog) :
          (StepTaken /\ At(prog[i], "NEG")) => NEGDone(prog[i])]_vars

\* C15 amended: that holds when the __ZERO cell holds 0.
C15_NEGNegatesWhenZeroIsZero ==
    [][\A i \in 1..Len(prog) :
          (StepTaken /\ At(prog[i], "NEG") /\ CellOf(computer, Lbl(ZERO)) = 0)
          => NEGDone(prog[i])]_vars

\* NEG(X, Y) with both labels on one cell has negated 0x1234
C15_Witness ==
    /\ pc = "run" /\ nsteps = 2 /\ Len(prog) = 2
    /\ prog[1].op = "NEG" /\ c_ip = prog[1].end
    /\ labels["X"] = labels["Y"]
    /\ GetWord(res.bytes, labels["X"]) = 4660
    /\ GetWord(c_memory, labels["X"]) = 60876

\* NOT(src, dst) at the PC: three Steps end after its expansion with the
\* complement of what src held in dst
NOTDone(m) ==
    \A c3 \in {Run(computer, 3)} :
        /\ c3.ip = m.end
        /\ CellOf(c3, m.dst) = 65535 - CellOf(computer, m.src)

\* C16 as claimed: NOT(src, dst) takes three Steps and leaves in dst the
\* bitwise complement of the 16-bit value src held, also when src and dst
\* are one cell.
C16_NOTComplements ==
    \A i \in 1..Len(prog) : At(prog[i], "NOT") => NOTDone(prog[i])

\* C16 amended: that holds when the __ONE cell holds 1 and the __ZERO cell
\* holds 0.
C16_NOTComplementsWhenOneAndZero ==
    \A i \in 1..Len(prog) :
        (At(prog[i], "NOT") /\ OneAndZero(computer)) => NOTDone(prog[i])

\* NOT(X, Y) has complemented 0xFFFF
C16_Witness ==
    /\ pc = "run" /\ nsteps = 4 /\ Len(prog) = 2
    /\ prog[1].op = "NOT" /\ c_ip = prog[1].end
    /\ labels["Y"] = labels["X"] + 2
    /\ GetWord(res.bytes, labels["X"]) = 65535 /\ GetWord(res.bytes, labels["Y"]) = 1
    /\ GetWord(c_memory, labels["X"]) = 65535 /\ GetWord(c_memory, labels["Y"]) = 0

\* INC(a) at the PC: two Steps end after its expansion with one more in a;
\* DEC(a) at the PC: one Step ends after its expansion with one less in a;
\* INC(a) at the PC and DEC(a) after it: three Steps leave in a what it held
INCDECDone(i) ==
    /\ At(prog[i], "INC") =>
          \A c2 \in {Run(computer, 2)} :
              /\ c2.ip = prog[i].end
              /\ CellOf(c2, prog[i].dst) = U16(CellOf(computer, prog[i].dst) + 1)
    /\ At(prog[i], "DEC") =>
          \A c1 \in {Run(computer, 1)} :
              /\ c1.ip = prog[i].end
              /\ CellOf(c1, prog[i].dst) = U16(CellOf(computer, prog[i].dst) - 1)
    /\ (/\ At(prog[i], "INC") /\ i < Len(prog)
        /\ prog[i + 1].op = "DEC" /\ prog[i + 1].dst = prog[i].dst) =>
          CellOf(Run(computer, 3), prog[i].dst) = CellOf(computer, prog[i].dst)

\* C17 as claimed: INC(a) leaves a + 1 mod 2^16 in a after two Steps, DEC(a)
\* leaves a - 1 mod 2^16 after one, 0xFFFF and 0 wrapping, and INC(a) then
\* DEC(a) leaves in a the value it held.
C17_INCAndDEC ==
    \A i \in 1..Len(prog) : INCDECDone(i)

\* C17 amended: that holds when the __ONE cell holds 1 and the __ZERO cell
\* holds 0.
C17_INCAndDECWhenOneAndZero ==
    \A i \in 1..Len(prog) : (pc = "run" /\ OneAndZero(computer)) => INCDECDone(i)

\* INC(X); DEC(X) has run on 0xFFFF, through 0
C17_Witness ==
    /\ pc = "run" /\ nsteps = 4 /\ Len(prog) = 3
    /\ prog[1].op = "INC" /\ prog[2].op = "DEC" /\ c_ip = prog[2].end
    /\ labels["Y"] = labels["X"] + 2
    /\ GetWord(res.bytes, labels["X"]) = 65535
    /\ GetWord(c_memory, 12) = 65535
    /\ GetWord(c_memory, labels["X"]) = 65535

\* the Steps that the macro instructions that do not branch take
StepsOf(op) ==
    CASE op \in {"MOV", "NEG", "SUB", "DEC", "NOP"} -> 1
      [] op \in {"ADD", "INC"} -> 2
      [] op = "NOT" -> 3
      [] OTHER -> 0

HLTDone == ~Halted(computer) /\ Halted([ip |-> c_ip', memory |-> c_memory'])

\* C19 as claimed: with the PC at HLT the machine is not halted, and one
\* Step leaves it halted.
C19_HLTHalts ==
    [][\A i \in 1..Len(prog) : (StepTaken /\ At(prog[i], "HLT")) => HLTDone]_vars

\* C19 amended: that holds when the __ONE cell holds 1 and the __ZERO cell
\* holds 0.
C19_HLTHaltsWhenOneAndZero ==
    [][\A i \in 1..Len(prog) :
          (StepTaken /\ At(prog[i], "HLT") /\ OneAndZero(computer)) => HLTDone]_vars

\* the program of HLT alone has halted at its second Step
C19_Witness ==
    /\ pc = "run" /\ nsteps = 2 /\ Len(prog) = 1 /\ prog[1].op = "HLT"
    /\ prog[1].at = 106
    /\ Halted(computer)
    /\ CellOf(computer, Lbl(JUNK)) = 1

\* the PC is at the PUSH that is macro instruction i of the program, macro
\* instruction j is a POP, and those between them are MOVs
PushThenPop(i, j) ==
    /\ i < j
    /\ At(prog[i], "PUSH")
    /\ prog[j].op = "POP"
    /\ \A k \in (i + 1)..(j - 1) : prog[k].op = "MOV"

\* the machines when the PUSH has run (9 Steps), when the MOVs after it have
\* run (one Step each), and when the POP has run (10 Steps)
AfterPush == Run(computer, 9)
BeforePop(i, j) == Run(AfterPush, j - i - 1)
AfterPop(i, j) == Run(BeforePop(i, j), 10)

\* the POP has left in its dst what the src of the PUSH held, and in __SP
\* what it held before the PUSH
RoundTrip(i, j, c) ==
    /\ CellOf(c, prog[j].dst) = CellOf(computer, prog[i].src)
    /\ CellOf(c, Lbl("__SP")) = CellOf(computer, Lbl("__SP"))

\* C20 as claimed: PUSH(src) then POP(dst) with no push or pop between
\* them leaves in dst the value src held at the push and in __SP the value
\* it held before the push.
C20_PushPopRoundTrip ==
    \A i \in 1..Len(prog), j \in 1..Len(prog) : PushThenPop(i, j) =>
        \A c \in {AfterPop(i, j)} : RoundTrip(i, j, c)

\* C20 amended: that holds when the __ONE cell holds 1 and the __ZERO cell
\* holds 0 as the PUSH executes and as the POP does.
C20_PushPopRoundTripWhenOneAndZero ==
    \A i \in 1..Len(prog), j \in 1..Len(prog) : PushThenPop(i, j) =>
        \A b \in {BeforePop(i, j)} : \A c \in {Run(b, 10)} :
            (OneAndZero(computer) /\ OneAndZero(b)) => RoundTrip(i, j, c)

\* PUSH(X); POP(Y) has run: Y held 0 and holds X's 0x1234, which is also in
\* the word at 0xFFFE, and __SP holds 0xFFFE
C20_Witness ==
    /\ pc = "run" /\ nsteps = 20 /\ Len(prog) = 3
    /\ prog[1].op = "PUSH" /\ prog[2].op = "POP" /\ c_ip = prog[2].end
    /\ labels["Y"] = labels["X"] + 2
    /\ GetWord(res.bytes, labels["X"]) = 4660 /\ GetWord(res.bytes, labels["Y"]) = 0
    /\ GetWord(c_memory, labels["Y"]) = 4660
    /\ GetWord(c_memory, 65534) = 4660
    /\ CellOf(computer, Lbl("__SP")) = 65534

\* the word in the __SP cell of the machine c
SPOf(c) == CellOf(c, Lbl("__SP"))

\* the word that __SP points at shares no byte with the preamble from the
\* __ONE cell on, nor with the program
StackClear(c) == \A x \in {SPOf(c), U16(SPOf(c) + 1)} : x < 8 \/ x >= res.len

\* the 9 Steps of a PUSH subtract 2 from __SP, the 10 Steps of a POP add 2
SPMoved(m) ==
    /\ At(m, "PUSH") => SPOf(Run(computer, 9)) = U16(SPOf(computer) - 2)
    /\ At(m, "POP") => SPOf(Run(computer, 10)) = U16(SPOf(computer) + 2)

\* C21 as claimed: each executed PUSH changes the __SP cell by -2 and each
\* executed POP by +2, mod 2^16, whatever the value pushed and the depth of
\* the stack.
C21_SPDelta == \A i \in 1..Len(prog) : SPMoved(prog[i])

\* C21 amended: that holds when the __ONE cell holds 1 and the __ZERO cell
\* holds 0 as the PUSH or POP starts and, for a PUSH, the word that __SP
\* points at lies outside the preamble and the program.
C21_SPDeltaWhenOneAndZero ==
    \A i \in 1..Len(prog) :
        (/\ OneAndZero(computer)
         /\ prog[i].op = "PUSH" => StackClear(computer))
        => SPMoved(prog[i])

\* PUSH(X); MOV(ONE, X); PUSH(X) has run: 0x1234 and 1 are on the stack and
\* __SP holds 0xFFFA
C21_Witness ==
    /\ pc = "run" /\ nsteps = 20 /\ Len(prog) = 4
    /\ prog[1].op = "PUSH" /\ prog[2].op = "MOV" /\ prog[3].op = "PUSH"
    /\ c_ip = prog[3].end
    /\ GetWord(c_memory, 65534) = 4660 /\ GetWord(c_memory, 65532) = 1
    /\ SPOf(computer) = 65530

\* the machines after 0, 1, ..., k Steps of the machine c, in that order
RECURSIVE Trace(_, _)
Trace(c, k) ==
    IF k = 0 THEN << c >>
    ELSE Bind(Trace(c, k - 1), LAMBDA t : Append(t, Step(t[k])))

\* the trace t of the present machine is after the expansion of m for the
\* first time at its k-th Step
FirstAfter(t, m, k) ==
    /\ t[k + 1].ip = m.end
    /\ \A j \in 1..k : t[j].ip # m.end

\* the 9 Steps of PUSH(src) end after its expansion and not before, the word
\* at the address __SP held has src's value, and src still has it
PUSHDone(m) ==
    \A t \in {Trace(computer, 9)} :
        /\ FirstAfter(t, m, 9)
        /\ GetWord(t[10].memory, SPOf(computer)) = CellOf(computer, m.src)
        /\ CellOf(t[10], m.src) = CellOf(computer, m.src)

\* before the first PUSH or POP of the program __SP holds 0xFFFE
FirstPush(i) ==
    (\A k \in 1..(i - 1) : prog[k].op = "MOV") => SPOf(computer) = 65534

\* C22 as claimed: executing PUSH(src) takes exactly 9 Steps, stores src's
\* value in the word at the address __SP held before the push (0xFFFE for
\* the first push), leaves src unchanged, and ends with the PC at the first
\* byte emitted after the expansion.
C22_PUSHStores ==
    \A i \in 1..Len(prog) :
        At(prog[i], "PUSH") => (PUSHDone(prog[i]) /\ FirstPush(i))

\* C22 amended: that holds when the __ONE cell holds 1 and the __ZERO cell
\* holds 0 as the PUSH starts and the word that __SP points at lies outside
\* the preamble and the program.
C22_PUSHStoresWhenOneAndZero ==
    \A i \in 1..Len(prog) :
        (At(prog[i], "PUSH") /\ OneAndZero(computer) /\ StackClear(computer))
        => (PUSHDone(prog[i]) /\ FirstPush(i))

\* PUSH(X) has run on X = 0x1234: the word at 0xFFFE holds it, X holds it,
\* and the PC is at the HLT that follows
C22_Witness ==
    /\ pc = "run" /\ nsteps = 10 /\ Len(prog) = 2
    /\ prog[1].op = "PUSH" /\ prog[2].op = "HLT" /\ c_ip = prog[2].at
    /\ GetWord(c_memory, 65534) = 4660
    /\ CellOf(computer, Lbl("X")) = 4660
    /\ SPOf(computer) = 65532

\* the staging cell of PUSH and POP
Staging == Lbl("__push_operand")

\* the 10 Steps of POP(dst) end after its expansion and not before; __SP is
\* 2 more from the 5th Step on, the staging cell holds the word __SP then
\* points at from the 7th Step on, and dst holds it from the 9th
POPDone(m) ==
    \A t \in {Trace(computer, 10)} :
        /\ FirstAfter(t, m, 10)
        /\ \A top \in {GetWord(t[6].memory, U16(SPOf(computer) + 2))} :
            /\ \A k \in 5..10 : SPOf(t[k + 1]) = U16(SPOf(computer) + 2)
            /\ \A k \in 7..10 : CellOf(t[k + 1], Staging) = top
            /\ \A k \in 9..10 : CellOf(t[k + 1], m.dst) = top
        /\ \A k \in 0..3 : SPOf(t[k + 1]) = SPOf(computer)

\* C23 as claimed: executing POP(dst) takes exactly 10 Steps: it first adds
\* 2 to __SP, then copies the word at the address __SP then holds into the
\* staging cell and from there into dst, and ends with the PC at the first
\* byte emitted after the expansion.
C23_POPLoads == \A i \in 1..Len(prog) : At(prog[i], "POP") => POPDone(prog[i])

\* C23 amended: that holds when the __ONE cell holds 1 and the __ZERO cell
\* holds 0 as the POP starts.
C23_POPLoadsWhenOneAndZero ==
    \A i \in 1..Len(prog) :
        (At(prog[i], "POP") /\ OneAndZero(computer)) => POPDone(prog[i])

\* PUSH(X); MOV(ONE, X); POP(Y) has run on X = 0x1234 and Y = 0: X holds 1,
\* Y and the staging cell hold 0x1234
C23_Witness ==
    /\ pc = "run" /\ nsteps = 21 /\ Len(prog) = 4
    /\ prog[1].op = "PUSH" /\ prog[2].op = "MOV" /\ prog[3].op = "POP"
    /\ c_ip = prog[3].end
    /\ GetWord(res.bytes, labels["Y"]) = 0
    /\ CellOf(computer, Lbl("X")) = 1
    /\ CellOf(computer, Lbl("Y")) = 4660 /\ CellOf(computer, Staging) = 4660

\* the instruction of a PUSH or POP that stores its return address: where
\* it is, the cell it stores into, and the address it stores
RetSite(m) ==
    IF m.op = "PUSH"
    THEN [at |-> m.at + InstrSize, cell |-> "__push_ret", ret |-> m.at + 3 * InstrSize]
    ELSE [at |-> m.at, cell |-> "__pop_ret", ret |-> m.at + 2 * InstrSize]

\* the PUSHes (cell __push_ret) or POPs (cell __pop_ret) of the program
\* whose storing instruction is at the PC
SitesAtPC(cell) ==
    {i \in 1..Len(prog) :
        /\ prog[i].op \in {"PUSH", "POP"}
        /\ RetSite(prog[i]).cell = cell
        /\ c_ip = RetSite(prog[i]).at}

\* a Step at the storing instruction of a PUSH (POP) stores into the one
\* cell __push_ret (__pop_ret) the return address of that site, and no other
\* Step changes the cell
RetCellKept(cell) ==
    IF SitesAtPC(cell) # {}
    THEN \A i \in SitesAtPC(cell) :
            /\ FieldC = labels[cell]
            /\ GetWord(c_memory', labels[cell]) = RetSite(prog[i]).ret
    ELSE GetWord(c_memory', labels[cell]) = GetWord(c_memory, labels[cell])

\* C24 as claimed: every PUSH stores its return address in the one cell
\* __push_ret and every POP in the one cell __pop_ret before it jumps into
\* the shared body, so after any sequence of pushes and pops each cell holds
\* the return address of the PUSH (POP) executed last.
C24_SharedReturnCells ==
    [][StepTaken => \A cell \in {"__push_ret", "__pop_ret"} : RetCellKept(cell)]_vars

\* C24 amended: that holds of the Steps taken while the __ONE cell holds 1
\* and the __ZERO cell holds 0.
C24_SharedReturnCellsWhenOneAndZero ==
    [][(StepTaken /\ OneAndZero(computer))
       => \A cell \in {"__push_ret", "__pop_ret"} : RetCellKept(cell)]_vars

\* PUSH(X); POP(Y); POP(Y): the second POP has stored its return address
\* over that of the first, and __push_ret holds that of the PUSH
C24_Witness ==
    /\ pc = "run" /\ nsteps = 21 /\ Len(prog) = 4
    /\ prog[1].op = "PUSH" /\ prog[2].op = "POP" /\ prog[3].op = "POP"
    /\ c_ip = prog[3].at + InstrSize
    /\ CellOf(computer, Lbl("__pop_ret")) = RetSite(prog[3]).ret
    /\ CellOf(computer, Lbl("__pop_ret")) # RetSite(prog[2]).ret
    /\ CellOf(computer, Lbl("__push_ret")) = RetSite(prog[1]).ret

\* the caller has loaded the bytes res' into the machine
Loaded == nops' = nops + 1 /\ last'.op = "LoadMemory"

\* the bytes of memory that are not 0 before or after the present step, and
\* the first byte after the bytes loaded
Touched == (DOMAIN c_memory) \cup (DOMAIN c_memory') \cup {res'.len}

\* C25: LoadMemory(bytes) makes memory[i] = bytes[i] for every i below the
\* length of bytes, leaves every byte from that length on as it was, which is
\* 0 on a new machine, and leaves the PC as it was, which is 0 on a new
\* machine.
C25_LoadMemoryCopies ==
    [][Loaded =>
        /\ \A i \in 0..(res'.len - 1) : GetByte(c_memory', i) = GetByte(res'.bytes, i)
        /\ \A i \in Touched : i >= res'.len => GetByte(c_memory', i) = GetByte(c_memory, i)
        /\ c_ip' = c_ip
        /\ nops = 0 =>
            /\ c_ip' = 0
            /\ \A i \in Touched : i >= res'.len => GetByte(c_memory', i) = 0]_vars

\* the image of 0xFABA has been loaded over that of TestStep after its Step:
\* the two bytes are those loaded, the difference 3 is still in the word at
\* 12, and the PC is still 250
C25_Witness ==
    /\ pc = "run" /\ nops = 2 /\ nsteps = 1 /\ last.op = "LoadMemory"
    /\ res.len = 2
    /\ GetWord(c_memory, 0) = 64186
    /\ GetWord(c_memory, 2) = 10 /\ GetWord(c_memory, 12) = 3
    /\ c_ip = 250

\* the bytes of the word at the address a
WordBytes(a) == {a, Address(a + 1)}

\* the bytes that a Step of the machine c reads or writes: the four fields of
\* the instruction at the PC, the two operands and the result
StepBytes(c) ==
    UNION ({WordBytes(Address(c.ip + k)) : k \in {0, 2, 4, 6}}
           \cup {WordBytes(Fetch(c).A), WordBytes(Fetch(c).B), WordBytes(Fetch(c).C)})

\* c is a machine: its PC is an address and its memory is bytes at addresses
IsComputer(c) ==
    /\ c.ip \in 0..maxAddress
    /\ DOMAIN c.memory \subseteq 0..(MemorySize - 1)
    /\ \A x \in DOMAIN c.memory : c.memory[x] \in 1..255

\* C26: Step is total: from every state of the machine, also with the PC in
\* 0xFFF8..0xFFFE and operand or result addresses of 0xFFFF, a Step gives a
\* state of the machine and every byte it reads or writes is one of the
\* 65536 bytes of memory.
C26_StepIsTotal ==
    pc = "run" =>
        /\ IsComputer(computer)
        /\ \A c \in {Step(computer)} : IsComputer(c)
        /\ StepBytes(computer) \subseteq 0..(MemorySize - 1)

\* a Step at 0xFFFE, whose fields are in the bytes 0xFFFE, 0xFFFF, 0, .. 5,
\* after a Step that stored 0xFFFF in the bytes 0xFFFF and 0: its difference
\* was 0 and the PC is 6
C26_Witness ==
    /\ pc = "run" /\ nsteps = 2
    /\ GetByte(c_memory, 65535) = 255 /\ GetByte(c_memory, 0) = 255
    /\ GetWord(c_memory, 4) = 65535 /\ GetWord(c_memory, 6) = 65534
    /\ c_ip = 6

\* the operands of the multiplication as assembled, and the machine halted
\* after running it
MulOp1 == GetWord(res.bytes, labels["OP1"])
MulOp2 == GetWord(res.bytes, labels["OP2"])
MulHalted == pc = "run" /\ Halted(computer)

\* C27: the multiplication example of the README eventually halts, and at
\* halt the DST cell holds the product of OP1 and OP2: 6 for 3 and 2.
C27_MultiplicationHalts ==
    /\ <>MulHalted
    /\ [](MulHalted => CellOf(computer, Lbl("DST")) = (MulOp1 * MulOp2) % 65536)

\* the example has halted on 3 and 2 at its 21st Step, DST holds 6 and the
\* counter 0
C27_Witness ==
    /\ MulHalted /\ nsteps = 21
    /\ MulOp1 = 3 /\ MulOp2 = 2
    /\ CellOf(computer, Lbl("DST")) = 6
    /\ CellOf(computer, Lbl("CNT")) = 0

\* C28 as claimed: after the multiplication example has run to halt on 3 and
\* 2, the result 6 is in the word at the address 0x5a.
C28_ResultAt0x5a ==
    (MulHalted /\ MulOp1 = 3 /\ MulOp2 = 2) => GetWord(c_memory, 90) = 6

\* C29 as claimed: the assembler's cursor never decreases: every DB, DD, SBNZ
\* and macro call leaves it greater than or equal to what it was, also in
\* sequences of emissions that reach the end of the 65536-byte buffer.
C29_CursorNeverDecreases == [][ip' >= ip]_vars

\* the sites of the operands emitted through the label l before l was bound
PendingSites(l) ==
    {r.site : r \in {q \in refs : /\ q.label = l
                                  /\ \A d \in defs : d.label = l => d.addr > q.site}}

\* the pending list of l holds those sites, each once, in the order of
\* emission
Recorded(l) ==
    /\ PendingSites(l) # {} => l \in DOMAIN unresolved
    /\ l \in DOMAIN unresolved =>
        /\ {unresolved[l][i] : i \in 1..Len(unresolved[l])} = PendingSites(l)
        /\ \A i \in 1..(Len(unresolved[l]) - 1) : unresolved[l][i] < unresolved[l][i + 1]

\* every order in which the labels of the set S can be ranged over
RECURSIVE Perms(_)
Perms(S) ==
    IF S = {} THEN {<< >>}
    ELSE UNION {{<< x >> \o p : p \in Perms(S \ {x})} : x \in S}

\* the assembler with every pending list in the opposite order
SitesReversed(a) ==
    [a EXCEPT !.unresolved = [l \in DOMAIN a.unresolved |-> Reverse(a.unresolved[l])]]

\* C30: the references to a label that is not yet bound are all recorded, in
\* the order of emission; Assemble writes the same address, that of the
\* label, into each of them; and the image it returns is the same for every
\* order of the labels and of the sites of a label.
C30_PatchOrderIndependent ==
    /\ \A l \in {r.label : r \in refs} \cup DOMAIN unresolved : Recorded(l)
    /\ last.op = "Assemble" =>
        /\ res.status = "ok"
        /\ \A l \in DOMAIN unresolved : \A i \in 1..Len(unresolved[l]) :
               GetWord(res.bytes, unresolved[l][i]) = Lookup(labels, l)
        /\ \A order \in Perms(DOMAIN unresolved) : Assemble(self, order) = res
        /\ \A order \in RangeOrders(self) : Assemble(SitesReversed(self), order) = res

\* SBNZ(A, ZERO, B, A); JMP(B); Label(A) assembled: the two sites of A hold
\* the address of A, the two sites of B, which is not bound, hold 0
C30_Witness ==
    /\ last.op = "Assemble" /\ nops = 3
    /\ "A" \in DOMAIN labels /\ "B" \notin DOMAIN labels
    /\ {"A", "B"} \subseteq DOMAIN unresolved
    /\ unresolved["A"] = << 106, 112 >> /\ unresolved["B"] = << 110, 120 >>
    /\ labels["A"] = 122
    /\ GetWord(memory, 106) = 65535 /\ GetWord(memory, 112) = 65535
    /\ GetWord(res.bytes, 106) = 122 /\ GetWord(res.bytes, 112) = 122
    /\ GetWord(res.bytes, 110) = 0 /\ GetWord(res.bytes, 120) = 0

\* C31 as claimed: after Assemble has returned, the assembler holds no
\* pending patch site: no label has a pending list that is not empty.
C31_NoPendingAfterAssemble ==
    pc = "assembled" => \A l \in DOMAIN unresolved : unresolved[l] = << >>

\* the pending list of l holds every site of an operand emitted through l
\* before l was bound
KeptSites(l) ==
    PendingSites(l) # {} =>
        /\ l \in DOMAIN unresolved
        /\ PendingSites(l) \subseteq {unresolved[l][i] : i \in 1..Len(unresolved[l])}

\* C31 amended: Assemble reads the pending lists and leaves them as they
\* are; after it has returned, every label referenced before it was bound
\* still has its list, with every site recorded for it, and the addresses
\* are in the image alone: in the assembler's memory each of those sites
\* still holds the placeholder 0xFFFF.
C31_PendingKeptByAssemble ==
    /\ [][last'.op = "Assemble" => unresolved' = unresolved]_vars
    /\ [](pc = "assembled" =>
            /\ {ONE, ZERO, JUNK, "__start"} \subseteq DOMAIN unresolved
            /\ \A l \in {r.label : r \in refs} :
                /\ KeptSites(l)
                /\ \A x \in PendingSites(l) : GetWord(memory, x) = 65535)

\* SBNZ(A, ZERO, B, A); Label(A) assembled: A still has its two sites and
\* B its one
C31_Witness ==
    /\ last.op = "Assemble" /\ nresolves = 0 /\ nops = 2
    /\ {"A", "B"} \subseteq DOMAIN unresolved
    /\ unresolved["A"] = << 106, 112 >> /\ unresolved["B"] = << 110 >>
    /\ labels["A"] = 114
    /\ GetWord(res.bytes, 106) = 114 /\ GetWord(memory, 106) = 65535

\* C39: Assemble changes no field of the assembler; a second Assemble right
\* after the first returns the same bytes; and a label that is bound
\* resolves after Assemble to the address it is bound to, which is the
\* address the image holds at the sites that were pending for it.
C39_AssembleChangesNothing ==
    [][/\ last'.op = "Assemble" => UNCHANGED asmVars
       /\ (last.op = "Assemble" /\ last'.op = "Assemble") => res' = res
       /\ (pc = "assembled" /\ last'.op = "getAddress"
               /\ nresolves' = nresolves + 1 /\ last'.label \in DOMAIN labels) =>
            /\ labels' = labels
            /\ last'.ret = labels[last'.label]
            /\ res.status = "ok" =>
                   \A x \in PendingSites(last'.label) :
                       GetWord(res.bytes, x) = last'.ret]_vars

\* JMP(B); Label(B) assembled twice: the image is of 114 bytes and holds
\* the address of B in the JMP
C39_Witness ==
    /\ last.op = "Assemble" /\ nresolves = 1 /\ nops = 2
    /\ res.status = "ok" /\ res.len = 114
    /\ "B" \in DOMAIN labels /\ labels["B"] = 114
    /\ "B" \in DOMAIN unresolved /\ unresolved["B"] = << 112 >>
    /\ GetWord(res.bytes, 112) = 114 /\ GetWord(memory, 112) = 65535

\* the labels that n calls of uniqLabel return
GenLabels(n) == {"__label_" \o Pad4(k) : k \in 1..n}

\* a macro instruction is emitted by the step
MacroEmitted == pc = "asm" /\ nops' = nops + 1 /\ last'.op \in MacroOps

\* of that macro instruction: the labels it got from uniqLabel, the
\* addresses of its SBNZ instructions, the labels it passed as the branch
\* target (the D operand) of one of them, and the addresses inside its
\* expansion or right after it that it passed as branch targets
NewLabels == GenLabels(label_cnt') \ GenLabels(label_cnt)
NewInstrs == {ip + InstrSize * k : k \in 0..(((ip' - ip) \div InstrSize) - 1)}
TargetLabels == {r.label : r \in {q \in refs' \ refs : (q.site - 6) \in NewInstrs}}
TargetAddresses ==
    {GetWord(memory', i + 6) :
        i \in {j \in NewInstrs : \A q \in refs' \ refs : q.site # j + 6}}
    \cap ((ip + 1)..ip')

\* the labels it got are labels no call of uniqLabel had returned, each is
\* bound by it, once, inside its expansion or right after it, and had never
\* been bound
FreshAndBoundOnce ==
    /\ Cardinality(GenLabels(label_cnt')) = label_cnt'
    /\ \A l \in NewLabels :
        /\ l \notin DOMAIN labels
        /\ \A d \in defs : d.label # l
        /\ Cardinality({d \in defs' : d.label = l}) = 1
        /\ l \in DOMAIN labels' /\ labels'[l] \in (ip + 1)..ip'
    /\ \A d \in defs' \ defs : d.label \in NewLabels

\* C32 as claimed: every call of uniqLabel returns a label that no earlier
\* call returned; a macro instruction gets one label from uniqLabel for each
\* branch target inside its expansion, and branches inside its expansion
\* through those labels alone; and no generated label is bound twice,
\* whether the macro instructions follow one another or call one another.
C32_OneLabelPerBranchTarget ==
    [][MacroEmitted =>
          /\ FreshAndBoundOnce
          /\ TargetLabels \cap GenLabels(label_cnt') = NewLabels
          /\ TargetAddresses = {}]_vars

\* C32 amended: that holds of every macro instruction but PUSH and POP.
\* Those get two labels: one for the exit, the only branch target they
\* reach through a label, and one for the word after their instructions that
\* holds the return address, which they pass as the first operand of an
\* instruction; their two other branch targets inside the expansion are
\* addresses: ip + 8 and ip + 16 in PUSH, ip + 8 and ip + 24 in POP.
C32_FreshLabels ==
    [][MacroEmitted =>
          /\ FreshAndBoundOnce
          /\ IF last'.op \in {"PUSH", "POP"}
             THEN /\ Cardinality(NewLabels) = 2
                  /\ TargetLabels \cap GenLabels(label_cnt') =
                         {l \in NewLabels : labels'[l] = ip'}
                  /\ \E l \in NewLabels, q \in refs' \ refs :
                         /\ labels'[l] = ip' - 2
                         /\ q.label = l /\ q.site \in NewInstrs
                  /\ TargetAddresses =
                         {ip + 8, ip + (IF last'.op = "PUSH" THEN 16 ELSE 24)}
             ELSE /\ TargetLabels \cap GenLabels(label_cnt') = NewLabels
                  /\ TargetAddresses = {}]_vars

\* NOT(A, B), which is ADD, which calls NEG, then NEG, has got three labels,
\* and PUSH(A) after it two: the fourth is bound to the word after the four
\* instructions of the PUSH and the fifth after that word
C32_Witness ==
    /\ last.op = "PUSH" /\ nops = 2 /\ label_cnt = 5
    /\ GenLabels(5) \subseteq DOMAIN labels
    /\ labels["__label_0001"] = 122 /\ labels["__label_0002"] = 114
    /\ labels["__label_0003"] = 130
    /\ labels["__label_0004"] = 162 /\ labels["__label_0005"] = 164
    /\ ip = 164

\* the 16-bit value v as fetchOperand returns it: an int16
SameWord(v) == ToOperand(v % 65536)

\* the machine holds the word of the call p: its high byte at the address
\* of the call, its low byte at the next
WordStored(p) ==
    /\ GetByte(c_memory, p.at) = ((p.val % 65536) \div 256)
    /\ GetByte(c_memory, (p.at + 1) % 65536) = (p.val % 256)

\* C33: a Peek at the address of the putOperand or the DD before it returns
\* the value stored; after a putOperand or a DD the high byte is at the
\* address and the low byte at the next address, whether the address is even
\* or odd.
C33_WordRoundTrip ==
    /\ \A i \in 2..Len(prog) :
        (/\ prog[i].op = "Peek"
         /\ prog[i - 1].op \in {"DD", "putOperand"}
         /\ prog[i - 1].at = prog[i].at)
        => prog[i].val = SameWord(prog[i - 1].val)
    /\ (pc = "run" /\ prog # << >> /\ prog[Len(prog)].op \in {"DD", "putOperand"})
        => WordStored(prog[Len(prog)])

\* DB(7); DD(0xFABA) at the odd address 107, loaded and read back as -1350;
\* then putOperand(0xFFFF, -1350), whose low byte is at address 0, read back
C33_Witness ==
    /\ pc = "run" /\ Len(prog) = 4
    /\ prog[1] = [op |-> "DD", at |-> 107, val |-> 64186]
    /\ prog[2] = [op |-> "Peek", at |-> 107, val |-> -1350]
    /\ prog[3] = [op |-> "putOperand", at |-> 65535, val |-> -1350]
    /\ prog[4] = [op |-> "Peek", at |-> 65535, val |-> -1350]
    /\ GetByte(c_memory, 107) = 250 /\ GetByte(c_memory, 108) = 186
    /\ GetByte(c_memory, 65535) = 250 /\ GetByte(c_memory, 0) = 186

\* the result of the instruction at the IP is stored over a byte of its own
\* D field
StoresOverD == \E k \in {5, 6, 7} : FieldC = (c_ip + k) % 65536

\* C34: when the result is stored over the D field of the instruction that
\* executes, a result that is not zero sets the PC to the D the field held
\* before the step, not to what it holds after; the result is stored all the
\* same.
C34_BranchTargetReadFirst ==
    [][(StepTaken /\ c_ip # 65535 /\ StoresOverD) =>
          /\ c_ip' = IF Difference # 0 THEN FieldD ELSE (c_ip + 8) % 65536
          /\ GetWord(c_memory', FieldC) = Difference]_vars

\* SBNZ 8, 10, 6, 250 on 5 and 2: the D field holds 3 and the PC is 250
C34_Witness ==
    /\ nsteps = 1 /\ pc = "run"
    /\ GetWord(c_memory, 0) = 8 /\ GetWord(c_memory, 2) = 10 /\ GetWord(c_memory, 4) = 6
    /\ GetWord(c_memory, 8) = 5 /\ GetWord(c_memory, 10) = 2
    /\ GetWord(c_memory, 6) = 3
    /\ c_ip = 250

\* C35: in the first assembler, GetAddress of a label that is not in the
\* label table panics, whether it is called on the label or by Assemble for
\* the D operand of an instruction.
C35_GetAddressPanics ==
    /\ (last.op = "GetAddress" /\ last.label \notin DOMAIN labels) => res.status = "panic"
    /\ (last.op = "Assemble" /\
            \E i \in 1..Len(prog) : prog[i].d.k = "label" /\ prog[i].d.n \notin DOMAIN labels)
        => res.status = "panic"

\* the i-th POP of the program and the cell it pops into
PopAt(i) == prog[Pushes + i]

\* every POP is into its own cell Ri
PopsIntoOwnCells == \A i \in 1..Pops : PopAt(i).dst = Lbl(RCells[i])

\* the Steps before the i-th POP starts
StepsBeforePop(i) == 1 + 9 * Pushes + 10 * (i - 1)

\* the cell of the i-th POP holds the word of the cell pushed (k + 1 - i)-th
Delivered(i) ==
    GetWord(c_memory, labels[PopAt(i).dst.n]) =
        GetWord(res.bytes, labels[VCells[Pushes + 1 - i]])

\* the program is loaded: after the Steps of the k pushes and of i pops the
\* cell of the i-th POP holds the word pushed (k + 1 - i)-th, and after the
\* k-th POP __SP is 0xFFFE
LifoOrder ==
    pc = "run" =>
        /\ \A i \in 1..Pops : nsteps = StepsBeforePop(i + 1) => Delivered(i)
        /\ nsteps = StepsBeforePop(Pops + 1) =>
               GetWord(c_memory, labels["__SP"]) = maxAddress - 1

\* C36: k pushes of v1 .. vk followed by k pops deliver vk .. v1, whatever
\* the cells popped into, and leave 0xFFFE in __SP.
C36_StackIsLifo == LifoOrder

\* C36 (amended): when every POP is into a data cell of the caller's own,
\* k pushes of the words of V1 .. Vk followed by k pops take 1 + 19 k Steps
\* from the reset: the i-th POP starts after 1 + 9 k + 10 (i - 1) Steps and
\* stores the word of V(k + 1 - i) into its cell, where it stays; after the
\* last POP __SP is 0xFFFE and the PC is at the HLT, and the next Step halts.
C36_StackIsLifoIntoOwnCells ==
    (pc = "run" /\ PopsIntoOwnCells) =>
        /\ LifoOrder
        /\ \A i \in 1..Pops :
            /\ nsteps = StepsBeforePop(i) => c_ip = PopAt(i).at
            /\ nsteps >= StepsBeforePop(i + 1) => Delivered(i)
        /\ nsteps = StepsBeforePop(Pops + 1) => c_ip = PopAt(Pops).end
        /\ nsteps = StepsBeforePop(Pops + 1) + 1 => Halted(computer)

\* PUSH(V1); PUSH(V2); POP(R1); POP(R2); HLT on 4660 and 65535, halted
C36_Witness ==
    /\ pc = "run" /\ Halted(computer) /\ nsteps = 40
    /\ Pushes = 2 /\ Pops = 2 /\ PopsIntoOwnCells
    /\ GetWord(res.bytes, labels["V1"]) = 4660
    /\ GetWord(res.bytes, labels["V2"]) = 65535
    /\ GetWord(c_memory, labels["R1"]) = 65535
    /\ GetWord(c_memory, labels["R2"]) = 4660
    /\ GetWord(c_memory, labels["__SP"]) = 65534
    /\ GetWord(c_memory, 65534) = 4660 /\ GetWord(c_memory, 65532) = 65535

\* the instructions of the preamble: the jump to __start, and those of __push
\* and __pop up to their return jumps
PreambleInstrs ==
    {0} \cup {labels["__push"] + InstrSize * j : j \in 0..4}
        \cup {labels["__pop"] + InstrSize * j : j \in 0..5}

\* the instructions of an expansion: PUSH and POP have four and a cell
InstrCount(op) == IF op \in {"PUSH", "POP"} THEN 4 ELSE StepsOf(op)
MacroInstrs(m) == {m.at + InstrSize * j : j \in 0..(InstrCount(m.op) - 1)}

\* the HLT that ends the program
HLTInstr == IF prog = << >> THEN labels["__start"] ELSE prog[Len(prog)].end

\* the bytes of the __ONE and __ZERO cells, and the result words over them
OneZeroBytes == {labels[ONE], labels[ONE] + 1, labels[ZERO], labels[ZERO] + 1}
ResultOver(i) ==
    {GetWord(res.bytes, i + 4), U16(GetWord(res.bytes, i + 4) + 1)} \cap OneZeroBytes # {}

\* in the image no instruction of the preamble, of HLT or of an expansion
\* stores over the two cells, but an expansion into the cell it was passed
NoStoreOverOneAndZero ==
    pc \in {"assembled", "run"} =>
        /\ \A i \in PreambleInstrs \cup {HLTInstr} : ~ResultOver(i)
        /\ \A k \in 1..Len(prog) : \A i \in MacroInstrs(prog[k]) :
               ResultOver(i) =>
                   /\ prog[k].dst \in {Lbl(ONE), Lbl(ZERO)}
                   /\ GetWord(res.bytes, i + 4) = labels[prog[k].dst.n]

\* the instruction at the PC is a jump: SBNZ ONE, ZERO, JUNK, D
JumpAt(c) ==
    /\ GetWord(c.memory, c.ip) = labels[ONE]
    /\ GetWord(c.memory, U16(c.ip + 2)) = labels[ZERO]
    /\ GetWord(c.memory, U16(c.ip + 4)) = labels[JUNK]

\* the two cells hold 1 and 0, and a jump at the PC branches
OneZeroAndJumps ==
    /\ OneAndZero(computer)
    /\ (JumpAt(computer) /\ ~Halted(computer)) =>
           Step(computer).ip = GetWord(c_memory, U16(c_ip + 6))

\* the caller passes neither __ONE nor __ZERO as a destination
NoOneZeroDst == \A k \in 1..Len(prog) : prog[k].dst \notin {Lbl(ONE), Lbl(ZERO)}

\* the destinations the caller passes are its cells X and Y
OwnDst ==
    \A k \in 1..Len(prog) :
        prog[k].op \notin {"NOP", "PUSH"} => prog[k].dst \in {Lbl("X"), Lbl("Y")}

\* no POP before its PUSH: the stack stays below 0xFFFF
Balanced ==
    \A n \in 1..Len(prog) :
        Cardinality({k \in 1..n : prog[k].op = "POP"}) <=
            Cardinality({k \in 1..n : prog[k].op = "PUSH"})

\* C37: no instruction of the preamble or of a macro stores into __ONE or
\* __ZERO unless the caller passed the cell as a destination; so when it
\* passes neither, in every state of the run __ONE holds 1, __ZERO holds 0
\* and every jump (JMP, HLT, a subroutine's return) branches.
C37_OneAndZeroUnlessPassed ==
    /\ NoStoreOverOneAndZero
    /\ (pc = "run" /\ NoOneZeroDst) => OneZeroAndJumps

\* C37 (amended): no instruction of the preamble or of a macro stores into
\* __ONE or __ZERO unless the caller passed the cell as a destination; when
\* every destination it passes is a data cell of its own and no POP comes
\* before its PUSH, in every state of the run __ONE holds 1, __ZERO holds 0
\* and every jump (HLT, the calls and returns of __push and __pop) branches.
C37_OneAndZeroWithOwnCells ==
    /\ NoStoreOverOneAndZero
    /\ (pc = "run" /\ OwnDst /\ Balanced) => OneZeroAndJumps

\* PUSH(X); POP(Y); HLT with the PC at the return jump of __pop
C37_Witness ==
    /\ pc = "run" /\ Len(prog) = 2 /\ OwnDst /\ Balanced
    /\ prog[1].op = "PUSH" /\ prog[2].op = "POP"
    /\ c_ip = labels["__pop"] + 40 /\ JumpAt(computer)
    /\ GetWord(c_memory, labels["__pop_ret"]) = prog[2].at + 16
    /\ Step(computer).ip = prog[2].at + 16
    /\ OneAndZero(computer)

\* the Steps that each macro instruction takes
StepCount(op) ==
    CASE op = "PUSH" -> 9
      [] op = "POP" -> 10
      [] OTHER -> StepsOf(op)

RECURSIVE SumSteps(_)
SumSteps(p) == IF p = << >> THEN 0 ELSE StepCount(Head(p).op) + SumSteps(Tail(p))

\* the jump to __start, the Steps of the macros, and HLT's
TotalSteps == 1 + SumSteps(prog) + 1

\* the stack pointer is not a destination: the stack stays where New put it
StackInPlace == \A k \in 1..Len(prog) : prog[k].dst # Lbl("__SP")

\* C40: a program of the ten macros and HLT, whose operand cells are outside
\* the instructions and whose stack does not reach them, is halted after
\* 1 + the Steps of its macros + 1 Steps.
C40_HaltsAfterFixedSteps ==
    (pc = "run" /\ Balanced /\ StackInPlace /\ nsteps = TotalSteps) => Halted(computer)

\* C40 (amended): a program of the ten macros and HLT whose destinations are
\* data cells of the caller's own, after the HLT, and in which no POP comes
\* before its PUSH, eventually halts, and it is halted exactly when
\* 1 + the Steps of its macros + 1 Steps have been taken.
C40_HaltsAfterFixedStepsWithOwnCells ==
    /\ [](pc = "run" /\ OwnDst /\ Balanced =>
            /\ nsteps <= TotalSteps
            /\ Halted(computer) <=> nsteps = TotalSteps)
    /\ (pc = "run" /\ OwnDst /\ Balanced) ~> Halted(computer)

\* NOT(X, Y); PUSH(X); HLT has halted at its 14th Step
C40_Witness ==
    /\ pc = "run" /\ Halted(computer) /\ nsteps = 14 /\ TotalSteps = 14
    /\ Len(prog) = 2 /\ prog[1].op = "NOT" /\ prog[2].op = "PUSH"
    /\ OwnDst /\ Balanced
    /\ GetWord(c_memory, labels["__SP"]) = 65532

\* the patch sites that the assembler holds: [label, site]
RecordedSites ==
    UNION {{[label |-> l, site |-> unresolved[l][i]] : i \in 1..Len(unresolved[l])} :
               l \in DOMAIN unresolved}

\* the sites recorded are those of operands emitted through a label
OnlyThroughSBNZ == \A r \in RecordedSites : r \in refs

\* C38: when labels are referenced only through SBNZ, the macros and the
\* preamble, at Assemble every recorded patch site p has p + 1 below the
\* cursor and no two sites overlap, and Assemble stores inside the image.
C38_PatchSitesInsideImage ==
    (pc = "assembled" /\ OnlyThroughSBNZ) =>
        /\ \A r \in RecordedSites : r.site + 1 < ip
        /\ \A r, q \in RecordedSites :
               r # q => (r.site + 1 < q.site \/ q.site + 1 < r.site)
        /\ res.status = "ok"
        /\ res.len = ip

====
